---- MODULE Spec2Model ----
(***************************************************************************)
(* The session-key-backed gateway of the LimeSurvey MCP server             *)
(* (src/services/limesurvey-api.ts): the process-wide sessionKey cache,    *)
(* request(), getSessionKey(), releaseSessionKey() and the convenience     *)
(* method listSurveys(), run by tool invocations that overlap at the       *)
(* network boundary, against a remote endpoint that issues and releases    *)
(* session keys; the tool adapters built on the gateway (src/tools/*.ts    *)
(* and their other versions in the repository); and the server that        *)
(* registers the adapters and shuts down on a signal (src/server.ts).      *)
(***************************************************************************)
EXTENDS Integers, Sequences, FiniteSets, TLC

\* Bounds of the model.
NumTasks == 2          \* tool invocations / signal handlers that may overlap
MaxKeys == 2           \* session keys the remote issues in one run

Tasks == 1..NumTasks

----------------------------------------------------------------------------
\* JavaScript values, as a type tag (typeof, or the class of an error) and
\* the text of the value.
Undefined == [t |-> "undefined", s |-> ""]
Null == [t |-> "null", s |-> "null"]
Str(x) == [t |-> "string", s |-> x]
Obj(json) == [t |-> "object", s |-> json]
Bool(b) == [t |-> "boolean", s |-> IF b THEN "true" ELSE "false"]
Err(msg) == [t |-> "Error", s |-> msg]
AxiosError(msg) == [t |-> "AxiosError", s |-> msg]

\* JavaScript truthiness, as used by `if (sessionKey)`, `!LIMESURVEY_USERNAME`
\* and `if (response.data.error)`.
Truthy(v) ==
  /\ v.t \notin {"undefined", "null"}
  /\ ~(v.t = "string" /\ v.s = "")
  /\ ~(v.t = "boolean" /\ v.s = "false")
  /\ ~(v.t = "number" /\ v.s = "0")

\* JSON.stringify without the quoting of strings.
JSONStringify_Raw(v) == v.s

\* JSON.stringify of a string, null or object value.
JSONStringify(v) ==
  IF v.t = "string" THEN "\"" \o v.s \o "\"" ELSE v.s

IsSpace(c) == c \in {" ", "\t", "\n"}

\* String.prototype.trim
RECURSIVE TrimStart(_)
TrimStart(s) ==
  IF Len(s) > 0 /\ IsSpace(SubSeq(s, 1, 1))
  THEN TrimStart(SubSeq(s, 2, Len(s)))
  ELSE s

RECURSIVE TrimEnd(_)
TrimEnd(s) ==
  IF Len(s) > 0 /\ IsSpace(SubSeq(s, Len(s), Len(s)))
  THEN TrimEnd(SubSeq(s, 1, Len(s) - 1))
  ELSE s

Trim(s) == TrimEnd(TrimStart(s))

\* How a call or a request ends: a returned value or a thrown error.
NoOutcome == [kind |-> "none", val |-> Undefined]
Return(v) == [kind |-> "return", val |-> v]
Throw(e) == [kind |-> "throw", val |-> e]

\* An outbound request {method, params, id: 1}, and the slot with none.
NoRequest == [method |-> "", params |-> <<>>]

\* A request whose params start with the procedure name, the token second.
Request_MethodFirst(m, ps) == [method |-> m, params |-> <<Str(m)>> \o ps]

Request(m, ps) == [method |-> m, params |-> ps]

\* What comes back for a request: the decoded envelope {result, error} of an
\* HTTP success, or the error axios rejects with.
NoResponse == [k |-> "none", result |-> Undefined, error |-> Undefined, cause |-> Undefined]
Data(r, e) == [k |-> "data", result |-> r, error |-> e, cause |-> Undefined]
Fail(c) == [k |-> "fail", result |-> Undefined, error |-> Undefined, cause |-> c]

\* A tool adapter, server.tool(name, description, schema, handler): where it
\* is, the module it is in, its name, its confirmation field ("" when it has
\* none), the gateway method its handler calls ("request" when the handler
\* calls getSessionKey() and request() itself), the remote procedure, what
\* the handler does with the result, and the prefix of its error text.
NoAdapter ==
  [ at |-> "", module |-> "", name |-> "", confirm |-> "", op |-> "", proc |-> "",
    post |-> "", prefix |-> "" ]

\* What a handler ends with: the tool result {content, isError} it returns
\* (content: the texts of its items), or an error it lets escape.
NoResult == [kind |-> "none", isError |-> FALSE, content |-> <<>>]
Content(items) == [kind |-> "return", isError |-> FALSE, content |-> items]
ErrorContent(items) == [kind |-> "return", isError |-> TRUE, content |-> items]
Escaped(e) == [kind |-> "throw", isError |-> FALSE, content |-> <<e.s>>]

\* A running invocation: the adapter, the confirmation value in its
\* arguments, the calls into limesurveyAPI it has made.
Invocation(a, c, n) == [adapter |-> a, confirm |-> c, calls |-> n]

NoInvocation == Invocation(NoAdapter, Undefined, 0)

\* An invocation that has returned: the running invocation at its end, the
\* requests it issued, whether the confirmation guard refused it, how its last
\* gateway call ended, the error its catch block caught and its result.
Finished(inv, n, r, g, e, res) ==
  [ adapter |-> inv.adapter, confirm |-> inv.confirm, calls |-> inv.calls, sent |-> n,
    refused |-> r, gateway |-> g, caught |-> e, out |-> res ]

NoFinished == Finished(NoInvocation, 0, FALSE, NoOutcome, Undefined, NoResult)

\* No handler to look at.
NoArgs == [tool |-> ""]

----------------------------------------------------------------------------
VARIABLES
  LIMESURVEY_USERNAME,  \* process.env.LIMESURVEY_USERNAME
  LIMESURVEY_PASSWORD,  \* process.env.LIMESURVEY_PASSWORD
  sessionKey,           \* the module-level cache: Null or a key
  pc,                   \* per task: "idle", "sent" (request in flight), "received" (answer in flight)
  op,                   \* per task: the gateway method it is running
  req,                  \* per task: the request in flight
  resp,                 \* per task: the answer the remote has produced for it
  sentBy,               \* per task: requests its running call has issued
  remoteKeys,           \* the remote: session keys created and not released
  issued,               \* the remote: number of session keys created so far
  last,                 \* history: the call that settled last
  nAuth,                \* history: get_session_key requests issued while `clean`
  clean,                \* history: no releaseSessionKey call and no failed authentication yet
  returned,             \* history: tokens getSessionKey returned since the last release activity
  fresh,                \* history: a release has succeeded and no call needing a token began since
  READONLY_MODE,        \* process.env.READONLY_MODE
  registered,           \* the adapters startServer has registered
  tool,                 \* the adapter invocation that is running
  toolLast,             \* history: the adapter invocation that returned last, none while one runs
  shutdown,             \* per task: where its shutdownServer() is, "" when it runs none
  exitCode,             \* the code process.exit was called with, "" while the process runs
  released,             \* history, per task: what the releaseSessionKey() of its shutdownServer() ended with
  args,                 \* the arguments of a handler and the value its gateway call returned
  built                 \* the tool result the handler built from `args`

vars == <<LIMESURVEY_USERNAME, LIMESURVEY_PASSWORD, sessionKey, pc, op, req, resp, sentBy,
          remoteKeys, issued, last, nAuth, clean, returned, fresh,
          READONLY_MODE, registered, tool, toolLast, shutdown, exitCode, released,
          args, built>>

env == <<LIMESURVEY_USERNAME, LIMESURVEY_PASSWORD>>

\* The state of the adapter layer and of the server around the gateway.
toolVars == <<READONLY_MODE, registered, tool, toolLast>>

serverVars == <<shutdown, exitCode, released>>

\* A handler from the return of its gateway call to its own return.
handlerVars == <<args, built>>

outer == <<toolVars, serverVars, handlerVars>>

Key(n) == "K" \o ToString(n)

\* A settled call: the gateway method, the remote procedure of its last
\* request and the response to it, how that request() ended, the number of
\* requests the call issued and how the call ended.
Call(o, m, r, ro, n, outcome) ==
  [op |-> o, method |-> m, resp |-> r, reqOut |-> ro, sent |-> n, out |-> outcome]

\* The gateway module after its import, against a remote that has issued no
\* key.
GatewayInit ==
  /\ LIMESURVEY_USERNAME \in {Undefined, Str(""), Str("u")}
  /\ LIMESURVEY_PASSWORD \in {Undefined, Str("p")}
  /\ sessionKey = Null
  /\ pc = [p \in Tasks |-> "idle"]
  /\ op = [p \in Tasks |-> ""]
  /\ req = [p \in Tasks |-> NoRequest]
  /\ resp = [p \in Tasks |-> NoResponse]
  /\ sentBy = [p \in Tasks |-> 0]
  /\ remoteKeys = {}
  /\ issued = 0
  /\ last = Call("", "", NoResponse, NoOutcome, 0, NoOutcome)
  /\ nAuth = 0
  /\ clean = TRUE
  /\ returned = {}
  /\ fresh = FALSE

\* The server module after its import: no adapter registered, no invocation,
\* no signal yet.
ServerInit ==
  /\ registered = {}
  /\ tool = NoInvocation
  /\ toolLast = NoFinished
  /\ shutdown = [p \in Tasks |-> ""]
  /\ exitCode = ""
  /\ released = [p \in Tasks |-> NoOutcome]
  /\ args = NoArgs
  /\ built = NoResult

Init ==
  /\ GatewayInit
  /\ ServerInit
  /\ READONLY_MODE = Undefined

----------------------------------------------------------------------------
\* request() looking at the result first: an envelope that carries a result
\* returns it, whatever its error field.
RequestOutcome_ResultWins(r) ==
  IF r.k = "fail" THEN Throw(r.cause)
  ELSE IF r.result # Undefined THEN Return(r.result)
  ELSE IF Truthy(r.error)
       THEN Throw(Err("LimeSurvey API error: " \o JSONStringify(r.error)))
       ELSE Return(r.result)

\* request() taking a falsy result for a failure.
RequestOutcome_EmptyResultFails(r) ==
  IF r.k = "fail" THEN Throw(r.cause)
  ELSE IF Truthy(r.error)
       THEN Throw(Err("LimeSurvey API error: " \o JSONStringify(r.error)))
       ELSE IF Truthy(r.result) THEN Return(r.result)
       ELSE Throw(Err("LimeSurvey API error: empty result"))

\* request(): what the call ends with, given what came back.  A transport
\* failure is logged and rethrown; an envelope with a truthy error field
\* throws a new Error; anything else returns the result field.
RequestOutcome(r) ==
  IF r.k = "fail" THEN Throw(r.cause)
  ELSE IF Truthy(r.error)
       THEN Throw(Err("LimeSurvey API error: " \o JSONStringify(r.error)))
       ELSE Return(r.result)

\* The credentials check failing only when both are missing.
CredentialsMissing_BothOnly == ~Truthy(LIMESURVEY_USERNAME) /\ ~Truthy(LIMESURVEY_PASSWORD)

\* getSessionKey(): the credentials check before the request.
CredentialsMissing == ~Truthy(LIMESURVEY_USERNAME) \/ ~Truthy(LIMESURVEY_PASSWORD)

CredentialsError == Err("LimeSurvey credentials not found in environment variables")

\* The check of the key without `key.trim() !== ''`.
KeyAccepted_AnyString(out) ==
  out.kind = "return" /\ out.val.t = "string"

\* getSessionKey(): `typeof key === 'string' && key.trim() !== ''`
KeyAccepted(out) ==
  out.kind = "return" /\ out.val.t = "string" /\ Trim(out.val.s) # ""

\* getSessionKey(): what the call ends with, given how its request ended.
\* Everything thrown inside the try block is caught and replaced.
GetSessionKeyOutcome(out) ==
  IF KeyAccepted(out) THEN Return(out.val)
  ELSE IF out.kind = "return"
       THEN Throw(Err("Failed to get LimeSurvey session key: "
                      \o "Failed to get session key: Empty or invalid response from LimeSurvey API"))
       ELSE Throw(Err("Failed to get LimeSurvey session key: " \o out.val.s))

\* listSurveys() catching and replacing the error of its request, the way
\* getSessionKey() does.
ListSurveysOutcome_Wrapped(out) ==
  IF out.kind = "throw" THEN Throw(Err("Failed to list surveys: " \o out.val.s)) ELSE out

\* listSurveys(): `return this.request('list_surveys', [key])`: the call
\* ends as its request ends.
ListSurveysOutcome(out) == out

\* releaseSessionKey(): result and cache, given how its request ended.
ReleaseResult(out) == Return(Bool(out.kind = "return"))

\* releaseSessionKey() forgetting `sessionKey = null`.
ReleaseCache_NeverCleared(out, cache) == cache

\* releaseSessionKey() clearing the cache whether or not the request succeeded.
ReleaseCache_AlwaysCleared(out, cache) == Null

ReleaseCache(out, cache) == IF out.kind = "return" THEN Null ELSE cache

----------------------------------------------------------------------------
\* The remote endpoint and the transport: what can come back for a request.

TransportFailure == Fail(AxiosError("Network Error"))

ErrorObject == Obj("{\"code\":-32099,\"message\":\"Server error\"}")

SurveyList == Obj("[{\"sid\":\"1\",\"surveyls_title\":\"A\"}]")

\* The answers other than a created or a released key, per remote procedure:
\* one of each kind (a result, a remote error, a transport failure) ...
Coarse ==
  [ get_session_key |-> { Data(Null, Null), TransportFailure },
    release_session_key |-> { Data(Undefined, Str("Invalid session key")), TransportFailure },
    list_surveys |-> { Data(SurveyList, Null), Data(Undefined, Str("Invalid session key")) } ]

\* ... and the envelopes in detail: results that are null, empty or blank,
\* error fields that are absent, null, empty, a string or an object.
Fine ==
  [ get_session_key |->
      { Data(Null, Null), Data(Str(""), Null), Data(Str("  "), Null),
        Data(Obj("{\"status\":\"Invalid user name or password\"}"), Null),
        Data(Undefined, Str("Invalid user name or password")),
        TransportFailure },
    release_session_key |->
      { Data(Undefined, Str("Invalid session key")), Data(Null, ErrorObject), TransportFailure },
    list_surveys |->
      { Data(r, e) : r \in {Null, Obj("[]"), Obj("{}"), SurveyList}, e \in {Undefined, Null} }
      \cup { Data(Null, Str("")),
             Data(Undefined, Str("Invalid session key")),
             Data(Undefined, ErrorObject),
             Data(SurveyList, Str("Invalid session key")),
             TransportFailure } ]

\* What the awaited client.post(...) of task p may settle with now: the
\* answer the remote produced when it created or released a key, or else any
\* answer of `answers` (these change nothing at the remote).
Arrivals(p, answers) ==
  IF pc[p] = "received" THEN {resp[p]}
  ELSE IF pc[p] = "sent" THEN answers[req[p].method]
  ELSE {}

\* get_session_key succeeds: the remote creates a session key.
RemoteCreateKey(p) ==
  /\ pc[p] = "sent" /\ req[p].method = "get_session_key"
  /\ issued < MaxKeys
  /\ issued' = issued + 1
  /\ remoteKeys' = remoteKeys \cup {Key(issued + 1)}
  /\ resp' = [resp EXCEPT ![p] = Data(Str(Key(issued + 1)), Null)]
  /\ pc' = [pc EXCEPT ![p] = "received"]
  /\ UNCHANGED <<env, sessionKey, op, req, sentBy, last, nAuth, clean, returned, fresh>>

\* release_session_key succeeds: the remote drops the key it was given.
RemoteReleaseKey(p) ==
  /\ pc[p] = "sent" /\ req[p].method = "release_session_key"
  /\ remoteKeys' = remoteKeys \ {req[p].params[1].s}
  /\ resp' = [resp EXCEPT ![p] = Data(Str("OK"), Null)]
  /\ pc' = [pc EXCEPT ![p] = "received"]
  /\ UNCHANGED <<env, sessionKey, op, req, issued, sentBy, last, nAuth, clean, returned, fresh>>

----------------------------------------------------------------------------
\* The steps of a task.  A task runs between two network awaits without
\* interleaving; it is suspended only while its request is in flight.

\* client.post(...): the n-th request of the call leaves and the task awaits
\* the response.
Send(p, o, m, ps, n) ==
  /\ op' = [op EXCEPT ![p] = o]
  /\ req' = [req EXCEPT ![p] = Request(m, ps)]
  /\ resp' = [resp EXCEPT ![p] = NoResponse]
  /\ pc' = [pc EXCEPT ![p] = "sent"]
  /\ sentBy' = [sentBy EXCEPT ![p] = n]
  /\ UNCHANGED last

\* The call settles: its promise resolves or rejects with `outcome`, after
\* response r to its last request (NoResponse when it made none).
Settle(p, o, r, outcome) ==
  /\ op' = [op EXCEPT ![p] = ""]
  /\ req' = [req EXCEPT ![p] = NoRequest]
  /\ resp' = [resp EXCEPT ![p] = NoResponse]
  /\ pc' = [pc EXCEPT ![p] = "idle"]
  /\ sentBy' = [sentBy EXCEPT ![p] = 0]
  /\ last' = Call(o, req[p].method, r,
                  IF r = NoResponse THEN NoOutcome ELSE RequestOutcome(r),
                  sentBy[p], outcome)

\* getSessionKey() finds the key in the cache: `return sessionKey`.
CacheHit ==
  /\ returned' = returned \cup {sessionKey.s}
  /\ UNCHANGED <<nAuth, clean>>

\* getSessionKey() with an empty cache, up to its await, on behalf of
\* method o: the credentials check, then the get_session_key request.
Authenticate(p, o) ==
  IF CredentialsMissing
  THEN /\ Settle(p, o, NoResponse, Throw(CredentialsError))
       /\ clean' = FALSE
       /\ nAuth' = 0
       /\ UNCHANGED returned
  ELSE /\ Send(p, o, "get_session_key", <<LIMESURVEY_USERNAME, LIMESURVEY_PASSWORD>>, 1)
       /\ nAuth' = IF clean THEN nAuth + 1 ELSE nAuth
       /\ UNCHANGED <<clean, returned>>

\* A call of getSessionKey() up to its first await.
GetSessionKeyCall(p) ==
  /\ pc[p] = "idle"
  /\ fresh' = FALSE
  /\ UNCHANGED <<env, sessionKey, remoteKeys, issued>>
  /\ IF Truthy(sessionKey)
     THEN Settle(p, "getSessionKey", NoResponse, Return(sessionKey)) /\ CacheHit
     ELSE Authenticate(p, "getSessionKey")

\* getSessionKey() keeping a key that was cached while its request was in
\* flight, and returning that one.
GetSessionKeyResume_KeepsFirst(p, answers) ==
  /\ op[p] = "getSessionKey"
  /\ \E r \in Arrivals(p, answers) :
       LET g == GetSessionKeyOutcome(RequestOutcome(r))
           kept == IF g.kind = "return" /\ Truthy(sessionKey) THEN Return(sessionKey) ELSE g
       IN /\ sessionKey' = IF kept.kind = "return" THEN kept.val ELSE sessionKey
          /\ Settle(p, "getSessionKey", r, kept)
          /\ returned' = IF kept.kind = "return" THEN returned \cup {kept.val.s} ELSE returned
          /\ clean' = (clean /\ kept.kind = "return")
          /\ nAuth' = IF clean /\ kept.kind = "return" THEN nAuth ELSE 0
  /\ UNCHANGED <<env, remoteKeys, issued, fresh>>

\* getSessionKey() resumes with the get_session_key response.
GetSessionKeyResume(p, answers) ==
  /\ op[p] = "getSessionKey"
  /\ \E r \in Arrivals(p, answers) :
       LET g == GetSessionKeyOutcome(RequestOutcome(r)) IN
         /\ sessionKey' = IF g.kind = "return" THEN g.val ELSE sessionKey
         /\ Settle(p, "getSessionKey", r, g)
         /\ returned' = IF g.kind = "return" THEN returned \cup {g.val.s} ELSE returned
         /\ clean' = (clean /\ g.kind = "return")
         /\ nAuth' = IF clean /\ g.kind = "return" THEN nAuth ELSE 0
  /\ UNCHANGED <<env, remoteKeys, issued, fresh>>

\* A call of listSurveys() up to its first await: getSessionKey(), then the
\* list_surveys request at once when the key was cached.
ListSurveysCall(p) ==
  /\ pc[p] = "idle"
  /\ fresh' = FALSE
  /\ UNCHANGED <<env, sessionKey, remoteKeys, issued>>
  /\ IF Truthy(sessionKey)
     THEN Send(p, "listSurveys", "list_surveys", <<sessionKey>>, 1) /\ CacheHit
     ELSE Authenticate(p, "listSurveys")

\* listSurveys() resumes with the get_session_key response: getSessionKey()
\* caches and returns the key and the list_surveys request leaves, or the
\* error of getSessionKey() rejects the call.
ListSurveysAuthResume(p, answers) ==
  /\ op[p] = "listSurveys" /\ req[p].method = "get_session_key"
  /\ \E r \in Arrivals(p, answers) :
       LET g == GetSessionKeyOutcome(RequestOutcome(r)) IN
         IF g.kind = "return"
         THEN /\ sessionKey' = g.val
              /\ Send(p, "listSurveys", "list_surveys", <<g.val>>, sentBy[p] + 1)
              /\ returned' = returned \cup {g.val.s}
              /\ UNCHANGED <<clean, nAuth>>
         ELSE /\ Settle(p, "listSurveys", r, g)
              /\ clean' = FALSE
              /\ nAuth' = 0
              /\ UNCHANGED <<sessionKey, returned>>
  /\ UNCHANGED <<env, remoteKeys, issued, fresh>>

\* listSurveys() sending its list_surveys request again, up to three requests
\* in a call, when the request failed.
ListSurveysResume_Retries(p, answers) ==
  /\ op[p] = "listSurveys" /\ req[p].method = "list_surveys"
  /\ \E r \in Arrivals(p, answers) :
       IF RequestOutcome(r).kind = "throw" /\ sentBy[p] < 3
       THEN Send(p, "listSurveys", "list_surveys", req[p].params \o <<Str("retry")>>,
                 sentBy[p] + 1)
       ELSE Settle(p, "listSurveys", r, ListSurveysOutcome(RequestOutcome(r)))
  /\ UNCHANGED <<env, sessionKey, remoteKeys, issued, nAuth, clean, returned, fresh>>

\* listSurveys() dropping the cached key when its list_surveys request
\* failed.
ListSurveysResume_Invalidates(p, answers) ==
  /\ op[p] = "listSurveys" /\ req[p].method = "list_surveys"
  /\ \E r \in Arrivals(p, answers) :
       /\ Settle(p, "listSurveys", r, ListSurveysOutcome(RequestOutcome(r)))
       /\ sessionKey' = IF RequestOutcome(r).kind = "throw" THEN Null ELSE sessionKey
  /\ UNCHANGED <<env, remoteKeys, issued, nAuth, clean, returned, fresh>>

\* listSurveys() resumes with the list_surveys response.
ListSurveysResume(p, answers) ==
  /\ op[p] = "listSurveys" /\ req[p].method = "list_surveys"
  /\ \E r \in Arrivals(p, answers) :
       Settle(p, "listSurveys", r, ListSurveysOutcome(RequestOutcome(r)))
  /\ UNCHANGED <<env, sessionKey, remoteKeys, issued, nAuth, clean, returned, fresh>>

\* A call of releaseSessionKey() up to its first await.
ReleaseSessionKeyCall(p) ==
  /\ pc[p] = "idle"
  /\ clean' = FALSE
  /\ nAuth' = 0
  /\ returned' = {}
  /\ UNCHANGED <<env, sessionKey, remoteKeys, issued, fresh>>
  /\ IF ~Truthy(sessionKey)
     THEN Settle(p, "releaseSessionKey", NoResponse, Return(Bool(TRUE)))
     ELSE Send(p, "releaseSessionKey", "release_session_key", <<sessionKey>>, 1)

\* releaseSessionKey() resumes with the release_session_key response.
ReleaseSessionKeyResume(p, answers) ==
  /\ op[p] = "releaseSessionKey"
  /\ \E r \in Arrivals(p, answers) :
       LET out == RequestOutcome(r) IN
         /\ sessionKey' = ReleaseCache(out, sessionKey)
         /\ Settle(p, "releaseSessionKey", r, ReleaseResult(out))
         /\ fresh' = (fresh \/ out.kind = "return")
  /\ returned' = {}
  /\ UNCHANGED <<env, remoteKeys, issued, nAuth, clean>>

----------------------------------------------------------------------------
\* Tool invocations and signal handlers run as independent asynchronous
\* tasks: any idle task may call into the gateway, any suspended task may be
\* resumed by its response.
Next ==
  \E p \in Tasks :
    \/ GetSessionKeyCall(p) /\ UNCHANGED outer
    \/ GetSessionKeyResume(p, Coarse) /\ UNCHANGED outer
    \/ ListSurveysCall(p) /\ UNCHANGED outer
    \/ ListSurveysAuthResume(p, Coarse) /\ UNCHANGED outer
    \/ ListSurveysResume(p, Coarse) /\ UNCHANGED outer
    \/ ReleaseSessionKeyCall(p) /\ UNCHANGED outer
    \/ ReleaseSessionKeyResume(p, Coarse) /\ UNCHANGED outer
    \/ RemoteCreateKey(p) /\ UNCHANGED outer
    \/ RemoteReleaseKey(p) /\ UNCHANGED outer

Spec == Init /\ [][Next]_vars

\* One caller at a time, every kind of envelope: the specification for what
\* request() and the methods built on it do with a response.
NextRequest ==
  \/ GetSessionKeyCall(1) /\ UNCHANGED outer
  \/ GetSessionKeyResume(1, Fine) /\ UNCHANGED outer
  \/ ListSurveysCall(1) /\ UNCHANGED outer
  \/ ListSurveysAuthResume(1, Fine) /\ UNCHANGED outer
  \/ ListSurveysResume(1, Fine) /\ UNCHANGED outer
  \/ ReleaseSessionKeyCall(1) /\ UNCHANGED outer
  \/ ReleaseSessionKeyResume(1, Fine) /\ UNCHANGED outer
  \/ RemoteCreateKey(1) /\ UNCHANGED outer
  \/ RemoteReleaseKey(1) /\ UNCHANGED outer

SpecRequest == Init /\ [][NextRequest]_vars

----------------------------------------------------------------------------
\* The tool adapters.

\* The convenience methods of the gateway and the remote procedure each
\* requests: `const key = await this.getSessionKey(); return
\* this.request(procedure, [key, ...])`.
Procedure ==
  [ listSurveys |-> "list_surveys",
    getSurveyProperties |-> "get_survey_properties",
    listQuestions |-> "list_questions",
    listGroups |-> "list_groups",
    getResponseCount |-> "get_summary",
    exportResponses |-> "export_responses",
    exportStatistics |-> "export_statistics",
    activateSurvey |-> "activate_survey",
    addParticipant |-> "add_participants",
    importSurvey |-> "import_survey",
    exportSurveyStructure |-> "export_survey",
    copySurvey |-> "copy_survey",
    deleteSurvey |-> "delete_survey",
    importGroup |-> "import_group",
    exportGroup |-> "export_group",
    resetSurveyResponses |-> "reset_survey_logic_file",
    setResponseStatus |-> "set_response_status",
    deleteResponse |-> "delete_response",
    deleteAllResponses |-> "delete_all_responses",
    importResponses |-> "import_responses",
    addResponse |-> "add_response",
    getResponse |-> "get_response",
    updateResponse |-> "update_response",
    uploadFile |-> "upload_file",
    getUploadedFiles |-> "get_uploaded_files",
    listParticipants |-> "list_participants",
    addParticipants |-> "add_participants",
    deleteParticipants |-> "delete_participants",
    getQuestionnaireDefinition |-> "get_questionnaire_definition",
    getQuotas |-> "get_quota",
    getUserDetails |-> "get_user_details" ]

\* Every server.tool(...) of the repository.
Adapters ==
  { [ at |-> "src/src/questions.ts:13", module |-> "./questions.js", name |-> "listQuestions",
      confirm |-> "", op |-> "listQuestions", proc |-> "list_questions", post |-> "json",
      prefix |-> "Error listing questions: " ],
    [ at |-> "src/src/questions.ts:56", module |-> "./questions.js", name |-> "listQuestionGroups",
      confirm |-> "", op |-> "listGroups", proc |-> "list_groups", post |-> "json",
      prefix |-> "Error listing question groups: " ],
    [ at |-> "src/src/responses.ts:16", module |-> "./responses.js", name |-> "getSurveyResponseCount",
      confirm |-> "", op |-> "getResponseCount", proc |-> "get_summary", post |-> "json",
      prefix |-> "Error retrieving survey response summary: " ],
    [ at |-> "src/src/responses.ts:57", module |-> "./responses.js", name |-> "exportSurveyResponses",
      confirm |-> "", op |-> "exportResponses", proc |-> "export_responses", post |-> "length",
      prefix |-> "Error exporting survey responses: " ],
    [ at |-> "src/src/surveys.ts:17", module |-> "./surveys.js", name |-> "listSurveys",
      confirm |-> "", op |-> "listSurveys", proc |-> "list_surveys", post |-> "json",
      prefix |-> "Error listing surveys: " ],
    [ at |-> "src/src/surveys.ts:56", module |-> "./surveys.js", name |-> "getSurveyProperties",
      confirm |-> "", op |-> "getSurveyProperties", proc |-> "get_survey_properties", post |-> "json",
      prefix |-> "Error retrieving survey properties: " ],
    [ at |-> "src/src/surveys.ts:97", module |-> "./surveys.js", name |-> "activateSurvey",
      confirm |-> "", op |-> "activateSurvey", proc |-> "activate_survey", post |-> "json",
      prefix |-> "Error activating survey: " ],
    [ at |-> "src/src/surveys.ts:138", module |-> "./surveys.js", name |-> "getSurveyLanguageProperties",
      confirm |-> "", op |-> "request", proc |-> "get_language_properties", post |-> "json",
      prefix |-> "Error retrieving language properties: " ],
    [ at |-> "src/src/surveys.ts:184", module |-> "./surveys.js", name |-> "getAvailableLanguages",
      confirm |-> "", op |-> "request", proc |-> "get_site_settings", post |-> "json",
      prefix |-> "Error retrieving available languages: " ],
    [ at |-> "src/src/surveys.ts:237", module |-> "./surveys.js", name |-> "getSurveyLanguages",
      confirm |-> "", op |-> "request", proc |-> "get_survey_languages", post |-> "join",
      prefix |-> "Error retrieving survey languages: " ],
    [ at |-> "src/src/tools/group-management.ts:14", module |-> "./tools/group-management.js", name |-> "importQuestionGroup",
      confirm |-> "", op |-> "importGroup", proc |-> "import_group", post |-> "json",
      prefix |-> "Error importing question group: " ],
    [ at |-> "src/src/tools/group-management.ts:57", module |-> "./tools/group-management.js", name |-> "exportQuestionGroup",
      confirm |-> "", op |-> "exportGroup", proc |-> "export_group", post |-> "length",
      prefix |-> "Error exporting question group: " ],
    [ at |-> "src/src/tools/participants.ts:14", module |-> "./tools/participants.js", name |-> "addParticipant",
      confirm |-> "", op |-> "addParticipant", proc |-> "add_participants", post |-> "json",
      prefix |-> "Error adding participant: " ],
    [ at |-> "src/src/tools/participants.ts:78", module |-> "./tools/participants.js", name |-> "listParticipants",
      confirm |-> "", op |-> "request", proc |-> "list_participants", post |-> "json",
      prefix |-> "Error listing participants: " ],
    [ at |-> "src/src/tools/participants.ts:133", module |-> "./tools/participants.js", name |-> "getParticipantProperties",
      confirm |-> "", op |-> "request", proc |-> "get_participant_properties", post |-> "json",
      prefix |-> "Error retrieving participant properties: " ],
    [ at |-> "src/src/tools/participants.ts:183", module |-> "./tools/participants.js", name |-> "addMultipleParticipants",
      confirm |-> "", op |-> "addParticipants", proc |-> "add_participants", post |-> "length",
      prefix |-> "Error adding participants: " ],
    [ at |-> "src/src/tools/participants.ts:248", module |-> "./tools/participants.js", name |-> "listFilteredParticipants",
      confirm |-> "", op |-> "listParticipants", proc |-> "list_participants", post |-> "json",
      prefix |-> "Error listing participants: " ],
    [ at |-> "src/src/tools/participants.ts:319", module |-> "./tools/participants.js", name |-> "deleteParticipants",
      confirm |-> "confirmDeletion", op |-> "deleteParticipants", proc |-> "delete_participants", post |-> "json",
      prefix |-> "Error deleting participants: " ],
    [ at |-> "src/src/tools/questions.ts:14", module |-> "./tools/questions.js", name |-> "listQuestions",
      confirm |-> "", op |-> "listQuestions", proc |-> "list_questions", post |-> "json",
      prefix |-> "Error listing questions: " ],
    [ at |-> "src/src/tools/questions.ts:71", module |-> "./tools/questions.js", name |-> "listQuestionGroups",
      confirm |-> "", op |-> "listGroups", proc |-> "list_groups", post |-> "json",
      prefix |-> "Error listing question groups: " ],
    [ at |-> "src/src/tools/questions.ts:125", module |-> "./tools/questions.js", name |-> "getQuestionProperties",
      confirm |-> "", op |-> "request", proc |-> "get_question_properties", post |-> "json",
      prefix |-> "Error retrieving question properties: " ],
    [ at |-> "src/src/tools/response-management.ts:14", module |-> "./tools/response-management.js", name |-> "addResponse",
      confirm |-> "", op |-> "addResponse", proc |-> "add_response", post |-> "json",
      prefix |-> "Error adding response: " ],
    [ at |-> "src/src/tools/response-management.ts:52", module |-> "./tools/response-management.js", name |-> "getResponseById",
      confirm |-> "", op |-> "getResponse", proc |-> "get_response", post |-> "json",
      prefix |-> "Error retrieving response: " ],
    [ at |-> "src/src/tools/response-management.ts:94", module |-> "./tools/response-management.js", name |-> "updateResponse",
      confirm |-> "", op |-> "updateResponse", proc |-> "update_response", post |-> "json",
      prefix |-> "Error updating response: " ],
    [ at |-> "src/src/tools/response-management.ts:133", module |-> "./tools/response-management.js", name |-> "deleteResponse",
      confirm |-> "", op |-> "deleteResponse", proc |-> "delete_response", post |-> "json",
      prefix |-> "Error deleting response: " ],
    [ at |-> "src/src/tools/response-management.ts:175", module |-> "./tools/response-management.js", name |-> "deleteAllResponses",
      confirm |-> "confirmDeletion", op |-> "deleteAllResponses", proc |-> "delete_all_responses", post |-> "json",
      prefix |-> "Error deleting responses: " ],
    [ at |-> "src/src/tools/response-management.ts:227", module |-> "./tools/response-management.js", name |-> "importResponses",
      confirm |-> "", op |-> "importResponses", proc |-> "import_responses", post |-> "json",
      prefix |-> "Error importing responses: " ],
    [ at |-> "src/src/tools/response-management.ts:271", module |-> "./tools/response-management.js", name |-> "setResponseStatus",
      confirm |-> "", op |-> "setResponseStatus", proc |-> "set_response_status", post |-> "json",
      prefix |-> "Error setting response status: " ],
    [ at |-> "src/src/tools/response-management.ts:310", module |-> "./tools/response-management.js", name |-> "resetSurveyResponses",
      confirm |-> "confirmReset", op |-> "resetSurveyResponses", proc |-> "reset_survey_logic_file", post |-> "json",
      prefix |-> "Error resetting survey response tables: " ],
    [ at |-> "src/src/tools/responses.ts:14", module |-> "./tools/responses.js", name |-> "getResponseSummary",
      confirm |-> "", op |-> "getResponseCount", proc |-> "get_summary", post |-> "json",
      prefix |-> "Error retrieving response summary: " ],
    [ at |-> "src/src/tools/responses.ts:64", module |-> "./tools/responses.js", name |-> "exportResponses",
      confirm |-> "", op |-> "exportResponses", proc |-> "export_responses", post |-> "export",
      prefix |-> "Error exporting responses: " ],
    [ at |-> "src/unnamed/part_000:13", module |-> "./participants.js", name |-> "addSurveyParticipant",
      confirm |-> "", op |-> "addParticipant", proc |-> "add_participants", post |-> "json",
      prefix |-> "Error adding participant: " ],
    [ at |-> "src/unnamed/part_000:65", module |-> "./participants.js", name |-> "getParticipantProperties",
      confirm |-> "", op |-> "request", proc |-> "get_participant_properties", post |-> "json",
      prefix |-> "Error retrieving participant properties: " ],
    [ at |-> "src/unnamed/part_000:113", module |-> "./participants.js", name |-> "listSurveyParticipants",
      confirm |-> "", op |-> "request", proc |-> "list_participants", post |-> "json",
      prefix |-> "Error listing participants: " ],
    [ at |-> "src/unnamed/part_000:164", module |-> "./participants.js", name |-> "deleteParticipants",
      confirm |-> "", op |-> "request", proc |-> "delete_participants", post |-> "json",
      prefix |-> "Error deleting participants: " ],
    [ at |-> "src/unnamed/part_002:17", module |-> "./tools/surveys.js", name |-> "findSurvey",
      confirm |-> "", op |-> "listSurveys", proc |-> "list_surveys", post |-> "find",
      prefix |-> "Error finding surveys: " ],
    [ at |-> "src/unnamed/part_002:118", module |-> "./tools/surveys.js", name |-> "listSurveys",
      confirm |-> "", op |-> "listSurveys", proc |-> "list_surveys", post |-> "json",
      prefix |-> "Error listing surveys: " ],
    [ at |-> "src/unnamed/part_002:157", module |-> "./tools/surveys.js", name |-> "getSurveyProperties",
      confirm |-> "", op |-> "getSurveyProperties", proc |-> "get_survey_properties", post |-> "json",
      prefix |-> "Error retrieving survey properties: " ],
    [ at |-> "src/unnamed/part_002:198", module |-> "./tools/surveys.js", name |-> "activateSurvey",
      confirm |-> "", op |-> "activateSurvey", proc |-> "activate_survey", post |-> "json",
      prefix |-> "Error activating survey: " ],
    [ at |-> "src/unnamed/part_002:239", module |-> "./tools/surveys.js", name |-> "getSurveyLanguageProperties",
      confirm |-> "", op |-> "request", proc |-> "get_language_properties", post |-> "json",
      prefix |-> "Error retrieving language properties: " ],
    [ at |-> "src/unnamed/part_002:285", module |-> "./tools/surveys.js", name |-> "getAvailableLanguages",
      confirm |-> "", op |-> "request", proc |-> "get_site_settings", post |-> "json",
      prefix |-> "Error retrieving available languages: " ],
    [ at |-> "src/unnamed/part_002:338", module |-> "./tools/surveys.js", name |-> "getSurveyLanguages",
      confirm |-> "", op |-> "request", proc |-> "get_survey_languages", post |-> "join",
      prefix |-> "Error retrieving survey languages: " ],
    [ at |-> "src/unnamed/part_002:379", module |-> "./tools/surveys.js", name |-> "getQuotaInformation",
      confirm |-> "", op |-> "getQuotas", proc |-> "get_quota", post |-> "empty",
      prefix |-> "Error retrieving quota information: " ],
    [ at |-> "src/unnamed/part_002:447", module |-> "./tools/statistics.js", name |-> "exportStatistics",
      confirm |-> "", op |-> "exportStatistics", proc |-> "export_statistics", post |-> "statistics",
      prefix |-> "Error exporting statistics: " ],
    [ at |-> "src/unnamed/part_003:13", module |-> "./tools/responses.js", name |-> "getResponseSummary",
      confirm |-> "", op |-> "getResponseCount", proc |-> "get_summary", post |-> "json",
      prefix |-> "Error retrieving response summary: " ],
    [ at |-> "src/unnamed/part_003:54", module |-> "./tools/responses.js", name |-> "exportResponses",
      confirm |-> "", op |-> "exportResponses", proc |-> "export_responses", post |-> "preview",
      prefix |-> "Error exporting responses: " ],
    [ at |-> "src/unnamed/part_003:128", module |-> "./tools/responses.js", name |-> "listResponses",
      confirm |-> "", op |-> "request", proc |-> "list_responses", post |-> "json",
      prefix |-> "Error listing responses: " ],
    [ at |-> "src/unnamed/part_003:181", module |-> "./tools/responses.js", name |-> "getResponseSummary",
      confirm |-> "", op |-> "getResponseCount", proc |-> "get_summary", post |-> "json",
      prefix |-> "Error retrieving response summary: " ],
    [ at |-> "src/unnamed/part_003:222", module |-> "./tools/responses.js", name |-> "exportResponses",
      confirm |-> "", op |-> "exportResponses", proc |-> "export_responses", post |-> "export",
      prefix |-> "Error exporting responses: " ],
    [ at |-> "src/unnamed/part_003:345", module |-> "./tools/responses.js", name |-> "listResponses",
      confirm |-> "", op |-> "request", proc |-> "list_responses", post |-> "json",
      prefix |-> "Error listing responses: " ],
    [ at |-> "src/unnamed/part_004:13", module |-> "./tools/participants.js", name |-> "addParticipant",
      confirm |-> "", op |-> "addParticipant", proc |-> "add_participants", post |-> "json",
      prefix |-> "Error adding participant: " ],
    [ at |-> "src/unnamed/part_004:74", module |-> "./tools/participants.js", name |-> "listParticipants",
      confirm |-> "", op |-> "request", proc |-> "list_participants", post |-> "json",
      prefix |-> "Error listing participants: " ],
    [ at |-> "src/unnamed/part_004:123", module |-> "./tools/participants.js", name |-> "getParticipantProperties",
      confirm |-> "", op |-> "request", proc |-> "get_participant_properties", post |-> "json",
      prefix |-> "Error retrieving participant properties: " ],
    [ at |-> "src/unnamed/part_005:14", module |-> "./tools/file-management.js", name |-> "uploadSurveyFile",
      confirm |-> "", op |-> "uploadFile", proc |-> "upload_file", post |-> "json",
      prefix |-> "Error uploading file: " ],
    [ at |-> "src/unnamed/part_005:57", module |-> "./tools/file-management.js", name |-> "getUploadedFiles",
      confirm |-> "", op |-> "getUploadedFiles", proc |-> "get_uploaded_files", post |-> "empty",
      prefix |-> "Error getting uploaded files: " ],
    [ at |-> "src/unnamed/part_006:14", module |-> "./tools/survey-management.js", name |-> "importSurvey",
      confirm |-> "", op |-> "importSurvey", proc |-> "import_survey", post |-> "json",
      prefix |-> "Error importing survey: " ],
    [ at |-> "src/unnamed/part_006:53", module |-> "./tools/survey-management.js", name |-> "exportSurvey",
      confirm |-> "", op |-> "exportSurveyStructure", proc |-> "export_survey", post |-> "length",
      prefix |-> "Error exporting survey: " ],
    [ at |-> "src/unnamed/part_006:94", module |-> "./tools/survey-management.js", name |-> "copySurvey",
      confirm |-> "", op |-> "copySurvey", proc |-> "copy_survey", post |-> "json",
      prefix |-> "Error copying survey: " ],
    [ at |-> "src/unnamed/part_006:132", module |-> "./tools/survey-management.js", name |-> "deleteSurvey",
      confirm |-> "confirmDeletion", op |-> "deleteSurvey", proc |-> "delete_survey", post |-> "json",
      prefix |-> "Error deleting survey: " ],
    [ at |-> "src/unnamed/part_006:184", module |-> "./tools/survey-management.js", name |-> "getQuestionnaireDefinition",
      confirm |-> "", op |-> "getQuestionnaireDefinition", proc |-> "get_questionnaire_definition", post |-> "json",
      prefix |-> "Error retrieving questionnaire definition: " ] }

\* The remote procedures the gateway and the adapters request.
Procedures ==
  {"get_session_key", "release_session_key"} \cup { a.proc : a \in Adapters }

\* The handler's guard `if (!confirmDeletion)` / `if (!confirmReset)` taken
\* out.
ConfirmationRefused_Never(a, c) == FALSE

\* The handler's guard on its confirmation field, before the try block.
ConfirmationRefused(a, c) == a.confirm # "" /\ ~Truthy(c)

RefusalText(a) ==
  IF a.confirm = "confirmReset"
  THEN "You must confirm reset by setting confirmReset to true"
  ELSE "You must confirm deletion by setting confirmDeletion to true"

\* The calls into limesurveyAPI a handler has made once its domain request
\* is out: one convenience method, or getSessionKey() and request().
CallsWithRequest(a) == IF a.op = "request" THEN 2 ELSE 1

TypeError(msg) == [t |-> "TypeError", s |-> msg]

Nullish(v) == v.t \in {"undefined", "null"}

\* Array.isArray, on the JSON text of the value.
IsArray(v) == v.t = "object" /\ Len(v.s) > 0 /\ SubSeq(v.s, 1, 1) = "["

\* `!result || (Array.isArray(result) && result.length === 0) ||
\* Object.keys(result).length === 0`
NothingToReport(v) == ~Truthy(v) \/ v.s \in {"[]", "{}"}

\* The text standing for the success message of the adapter (a template
\* over its arguments).
Headline(a) == a.name \o ": done"

\* What the try block of the handler does with the value its gateway call
\* returned: the tool result it builds, or the TypeError of reading a property
\* of null or undefined or of calling what is no function.
PostProcess(a, v) ==
  CASE a.post \in {"length", "export", "statistics"} ->
         IF Nullish(v)
         THEN Throw(TypeError("Cannot read properties of " \o v.t \o " (reading 'length')"))
         ELSE Return(Content(<<Headline(a)>>))
    [] a.post = "join" ->
         IF Nullish(v)
         THEN Throw(TypeError("Cannot read properties of " \o v.t \o " (reading 'join')"))
         ELSE IF IsArray(v) THEN Return(Content(<<Headline(a)>>))
         ELSE Throw(TypeError("languages.join is not a function"))
    [] a.post = "empty" ->
         IF NothingToReport(v)
         THEN Return(Content(<<a.name \o ": nothing found">>))
         ELSE Return(Content(<<Headline(a), JSONStringify(v)>>))
    [] a.post = "find" ->
         IF ~IsArray(v) \/ v.s = "[]"
         THEN Return(Content(<<"No surveys found in the system.">>))
         ELSE Return(Content(<<Headline(a), JSONStringify(v)>>))
    [] a.post = "preview" ->
         Return(Content(<<Headline(a), "Preview of exported data:\n\n" \o v.s>>))
    [] OTHER ->
         Return(Content(<<Headline(a), JSONStringify(v)>>))

\* The catch block letting the error go.
AdapterCatch_Rethrows(a, e) == Escaped(e)

\* The catch block of the handler: one text item, the prefix of the adapter
\* and `error?.message || 'Unknown error'`, flagged as an error.
AdapterCatch(a, e) ==
  ErrorContent(<<a.prefix \o (IF e.s # "" THEN e.s ELSE "Unknown error")>>)

\* The error the try block of the handler raises, Undefined when it raises
\* none, given how the gateway call ended.
HandlerRaised(a, out) ==
  IF out.kind = "throw" THEN out.val
  ELSE IF PostProcess(a, out.val).kind = "throw" THEN PostProcess(a, out.val).val
  ELSE Undefined

\* What the handler returns, given how the gateway call ended.
HandlerOutcome(a, out) ==
  IF HandlerRaised(a, out) # Undefined
  THEN AdapterCatch(a, HandlerRaised(a, out))
  ELSE PostProcess(a, out.val).val

\* The answers to the requests of the adapters: results that are null, empty
\* or data, remote errors, transport failures with and without a message.
DomainAnswers ==
  { Data(r, Null) : r \in {Null, Obj("[]"), Obj("{}"), Str(""), Str("aGVsbG8="), SurveyList} }
  \cup { Data(Undefined, Str("Invalid session key")),
         Data(Null, ErrorObject),
         TransportFailure,
         Fail(AxiosError("")) }

ToolAnswers ==
  [ m \in Procedures |->
      IF m = "get_session_key" THEN Fine.get_session_key \cup {Fail(AxiosError(""))}
      ELSE IF m = "release_session_key" THEN Fine.release_session_key
      ELSE DomainAnswers ]

\* The handler of task p returns: the invocation is over.
ToolDone(p, inv, n, refused, g, e, res) ==
  /\ tool' = NoInvocation
  /\ toolLast' = Finished(inv, n, refused, g, e, res)
  /\ op' = [op EXCEPT ![p] = ""]
  /\ req' = [req EXCEPT ![p] = NoRequest]
  /\ resp' = [resp EXCEPT ![p] = NoResponse]
  /\ pc' = [pc EXCEPT ![p] = "idle"]
  /\ sentBy' = [sentBy EXCEPT ![p] = 0]

\* The handler of task p goes on after a request has left.
ToolAwaits(inv) ==
  /\ tool' = inv
  /\ toolLast' = NoFinished

\* Task p runs the handler of adapter a with confirmation value c, up to its
\* first await: the confirmation guard, then getSessionKey() (in the
\* convenience method or called by the handler), then the domain request at
\* once when the key was cached.
ToolCall(p, a, c) ==
  /\ pc[p] = "idle" /\ tool = NoInvocation /\ exitCode = ""
  /\ UNCHANGED <<env, sessionKey, remoteKeys, issued, last, READONLY_MODE, registered,
                 serverVars, handlerVars>>
  /\ IF ConfirmationRefused(a, c)
     THEN /\ ToolDone(p, Invocation(a, c, 0), 0, TRUE, NoOutcome, Undefined,
                      ErrorContent(<<RefusalText(a)>>))
          /\ UNCHANGED <<nAuth, clean, returned, fresh>>
     ELSE /\ fresh' = FALSE
          /\ IF Truthy(sessionKey)
             THEN /\ Send(p, a.op, a.proc, <<sessionKey>>, 1)
                  /\ ToolAwaits(Invocation(a, c, CallsWithRequest(a)))
                  /\ CacheHit
             ELSE IF CredentialsMissing
             THEN /\ ToolDone(p, Invocation(a, c, 1), 0, FALSE, Throw(CredentialsError),
                              CredentialsError, AdapterCatch(a, CredentialsError))
                  /\ clean' = FALSE
                  /\ nAuth' = 0
                  /\ UNCHANGED returned
             ELSE /\ Send(p, a.op, "get_session_key",
                          <<LIMESURVEY_USERNAME, LIMESURVEY_PASSWORD>>, 1)
                  /\ ToolAwaits(Invocation(a, c, 1))
                  /\ nAuth' = IF clean THEN nAuth + 1 ELSE nAuth
                  /\ UNCHANGED <<clean, returned>>

\* The handler resumes with the get_session_key response: getSessionKey()
\* caches and returns the key and the domain request leaves, or its error
\* lands in the catch block of the handler.
ToolAuthResume(p, answers) ==
  /\ tool # NoInvocation /\ req[p].method = "get_session_key" /\ exitCode = ""
  /\ \E r \in Arrivals(p, answers) :
       LET g == GetSessionKeyOutcome(RequestOutcome(r))
           a == tool.adapter
       IN IF g.kind = "return"
          THEN /\ sessionKey' = g.val
               /\ Send(p, a.op, a.proc, <<g.val>>, sentBy[p] + 1)
               /\ ToolAwaits(Invocation(a, tool.confirm, CallsWithRequest(a)))
               /\ returned' = returned \cup {g.val.s}
               /\ UNCHANGED <<clean, nAuth>>
          ELSE /\ ToolDone(p, tool, sentBy[p], FALSE, g, g.val, AdapterCatch(a, g.val))
               /\ clean' = FALSE
               /\ nAuth' = 0
               /\ UNCHANGED <<sessionKey, returned, last>>
  /\ UNCHANGED <<env, remoteKeys, issued, fresh, READONLY_MODE, registered, serverVars, handlerVars>>

\* The handler resumes with the response to its domain request and returns.
ToolResume(p, answers) ==
  /\ tool # NoInvocation /\ req[p].method = tool.adapter.proc /\ exitCode = ""
  /\ \E r \in Arrivals(p, answers) :
       LET out == RequestOutcome(r)
           a == tool.adapter
       IN ToolDone(p, tool, sentBy[p], FALSE, out, HandlerRaised(a, out),
                   HandlerOutcome(a, out))
  /\ UNCHANGED <<env, sessionKey, remoteKeys, issued, last, nAuth, clean, returned, fresh,
                 READONLY_MODE, registered, serverVars, handlerVars>>

\* The confirmation values the handler of adapter a may see: absent, false
\* or true in its confirmation field; an adapter without one sees none.
Confirmations(a) ==
  IF a.confirm = "" THEN {Undefined} ELSE {Undefined, Bool(FALSE), Bool(TRUE)}

\* The handlers of the adapters, one invocation at a time, every kind of
\* envelope.
NextTools ==
  \/ \E a \in Adapters : \E c \in Confirmations(a) : ToolCall(1, a, c)
  \/ ToolAuthResume(1, ToolAnswers)
  \/ ToolResume(1, ToolAnswers)
  \/ RemoteCreateKey(1) /\ UNCHANGED outer

SpecTools == Init /\ [][NextTools]_vars

----------------------------------------------------------------------------
\* The server: registration of the adapters and shutdown on a signal.

\* The modules the two versions of startServer import.
readOnlyModules == {"./tools/surveys.js", "./tools/questions.js", "./tools/statistics.js"}

writeModules == {"./tools/participants.js", "./tools/responses.js", "./tools/survey-management.js"}

isReadOnlyMode == READONLY_MODE = Str("true")

\* startServer of the version with the read-only mode: `modulesToImport`.
ModulesToImport ==
  IF isReadOnlyMode THEN readOnlyModules ELSE readOnlyModules \cup writeModules

\* startServer of src/server.ts: the nine modules of its Promise.all.
AllModules ==
  readOnlyModules \cup writeModules
  \cup {"./tools/group-management.js", "./tools/response-management.js",
        "./tools/file-management.js"}

\* startServer(): the tool modules are imported and their server.tool(...)
\* calls register the adapters.
StartServer ==
  /\ registered = {} /\ exitCode = ""
  /\ \E modules \in {ModulesToImport, AllModules} :
       registered' = { a \in Adapters : a.module \in modules }
  /\ UNCHANGED <<env, sessionKey, pc, op, req, resp, sentBy, remoteKeys, issued, last,
                 nAuth, clean, returned, fresh, READONLY_MODE, tool, toolLast, serverVars, handlerVars>>

\* The tasks that run shutdownServer(): SIGINT and SIGTERM each start one.
Handlers == Tasks \ {1}

\* shutdownServer() going on to server.close() only when the session key
\* was released.
ShutdownAfterRelease_RequiresRelease(out) ==
  IF out = Return(Bool(TRUE)) THEN "close" ELSE "release"

\* shutdownServer(): where it is once `await limesurveyAPI.releaseSessionKey()`
\* has settled.  The value is not looked at; an error would land in the catch
\* block.
ShutdownAfterRelease(out) ==
  IF out.kind = "return" THEN "close" ELSE "failed"

\* shutdownServer() after the release settled with `out` in the step: it
\* awaits server.close(), or its catch block calls process.exit(1).
ShutdownGoesOn(p, out) ==
  /\ shutdown' = [shutdown EXCEPT ![p] = ShutdownAfterRelease(out)]
  /\ exitCode' = IF ShutdownAfterRelease(out) = "failed" THEN "1" ELSE exitCode
  /\ released' = [released EXCEPT ![p] = out]

\* A termination signal: shutdownServer() runs up to its first await, the
\* call of releaseSessionKey().
Signal(p) ==
  /\ shutdown[p] = "" /\ exitCode = ""
  /\ ReleaseSessionKeyCall(p)
  /\ IF Truthy(sessionKey)
     THEN shutdown' = [shutdown EXCEPT ![p] = "release"] /\ UNCHANGED <<exitCode, released>>
     ELSE ShutdownGoesOn(p, Return(Bool(TRUE)))
  /\ UNCHANGED <<toolVars, handlerVars>>

\* shutdownServer() resumes when releaseSessionKey() settles.
ShutdownReleased(p, answers) ==
  /\ shutdown[p] = "release" /\ exitCode = ""
  /\ ReleaseSessionKeyResume(p, answers)
  /\ ShutdownGoesOn(p, last'.out)
  /\ UNCHANGED <<toolVars, handlerVars>>

\* shutdownServer() resumes when server.close() settles: process.exit(0)
\* when it resolved, process.exit(1) from the catch block when it rejected.
ShutdownClosed(p) ==
  /\ shutdown[p] = "close" /\ exitCode = ""
  /\ exitCode' \in {"0", "1"}
  /\ shutdown' = [shutdown EXCEPT ![p] = "exit"]
  /\ UNCHANGED <<env, sessionKey, pc, op, req, resp, sentBy, remoteKeys, issued, last,
                 nAuth, clean, returned, fresh, toolVars, released, handlerVars>>

\* The server process: started once, a caller of the gateway, signals.
ServerSpecInit ==
  /\ GatewayInit
  /\ ServerInit
  /\ READONLY_MODE \in {Undefined, Str("false"), Str("true")}

NextServer ==
  \/ StartServer
  \/ exitCode = "" /\ GetSessionKeyCall(1) /\ UNCHANGED outer
  \/ exitCode = "" /\ GetSessionKeyResume(1, Coarse) /\ UNCHANGED outer
  \/ exitCode = "" /\ RemoteCreateKey(1) /\ UNCHANGED outer
  \/ \E p \in Handlers :
       \/ Signal(p)
       \/ exitCode = "" /\ RemoteReleaseKey(p) /\ UNCHANGED outer
       \/ ShutdownReleased(p, Coarse)
       \/ ShutdownClosed(p)

\* The event loop resumes a handler whose awaited call has settled; the
\* release request and server.close() settle.
ServerFairness ==
  \A p \in Handlers :
    WF_vars(ShutdownReleased(p, Coarse)) /\ WF_vars(ShutdownClosed(p))

SpecServer == ServerSpecInit /\ [][NextServer]_vars /\ ServerFairness

----------------------------------------------------------------------------
\* Strings, as the handlers use them.

CharAt(s, i) == SubSeq(s, i, i)

\* String.prototype.indexOf for a single character: its first position from
\* 0, or -1.
IndexOf(s, c) ==
  IF \E i \in 1..Len(s) : CharAt(s, i) = c
  THEN (CHOOSE i \in 1..Len(s) : CharAt(s, i) = c /\ \A j \in 1..(i - 1) : CharAt(s, j) # c) - 1
  ELSE -1

\* String.prototype.includes
Includes(s, part) ==
  \E i \in 0..(Len(s) - Len(part)) : SubSeq(s, i + 1, i + Len(part)) = part

\* String.prototype.substring(from, to), 0 <= from <= to
Substring(s, from, to) ==
  SubSeq(s, from + 1, IF to < Len(s) THEN to ELSE Len(s))

UpperCaseLetters == "ABCDEFGHIJKLMNOPQRSTUVWXYZ"

LowerCaseLetters == "abcdefghijklmnopqrstuvwxyz"

\* The characters of s, those found in `from` replaced by the ones at the
\* same place in `to`.
RECURSIVE Translate(_, _, _)
Translate(s, from, to) ==
  IF Len(s) = 0 THEN ""
  ELSE IF Len(s) = 1
  THEN (IF IndexOf(from, s) >= 0 THEN CharAt(to, IndexOf(from, s) + 1) ELSE s)
  ELSE Translate(SubSeq(s, 1, Len(s) \div 2), from, to)
       \o Translate(SubSeq(s, Len(s) \div 2 + 1, Len(s)), from, to)

\* String.prototype.toLowerCase and toUpperCase, on ASCII text.
ToLowerCase(s) == Translate(s, UpperCaseLetters, LowerCaseLetters)

ToUpperCase(s) == Translate(s, LowerCaseLetters, UpperCaseLetters)

\* Buffer.from(s, 'base64').toString('utf-8'), for a string of the base64
\* alphabet with its padding at the end and bytes that are ASCII text.
Base64Chars == "ABCDEFGHIJKLMNOPQRSTUVWXYZabcdefghijklmnopqrstuvwxyz0123456789+/"

\* The characters of the codes 32 to 126; "?" stands at the place of code 96.
Printable ==
  " !\"#$%&'()*+,-./0123456789:;<=>?@ABCDEFGHIJKLMNOPQRSTUVWXYZ[\\]^_?abcdefghijklmnopqrstuvwxyz{|}~"

\* The characters of s that are of the alphabet: whitespace and padding are
\* skipped.
RECURSIVE Sextets(_)
Sextets(s) ==
  IF Len(s) = 0 THEN ""
  ELSE IF Len(s) = 1 THEN (IF IndexOf(Base64Chars, s) >= 0 THEN s ELSE "")
  ELSE Sextets(SubSeq(s, 1, Len(s) \div 2)) \o Sextets(SubSeq(s, Len(s) \div 2 + 1, Len(s)))

\* The character of a byte; "?" for what is no ASCII text.
FromCharCode(b) ==
  IF b = 10 THEN "\n"
  ELSE IF b >= 32 /\ b <= 126 THEN CharAt(Printable, b - 31)
  ELSE "?"

Six(s, i) == IndexOf(Base64Chars, CharAt(s, i))

\* Up to four characters of the alphabet give up to three bytes.
DecodeGroup(g) ==
  IF Len(g) < 2 THEN ""
  ELSE LET n == Six(g, 1) * 262144 + Six(g, 2) * 4096
                + (IF Len(g) > 2 THEN Six(g, 3) * 64 ELSE 0)
                + (IF Len(g) > 3 THEN Six(g, 4) ELSE 0)
       IN FromCharCode(n \div 65536)
          \o (IF Len(g) > 2 THEN FromCharCode((n \div 256) % 256) ELSE "")
          \o (IF Len(g) > 3 THEN FromCharCode(n % 256) ELSE "")

RECURSIVE DecodeGroups(_)
DecodeGroups(s) ==
  IF Len(s) <= 4 THEN DecodeGroup(s)
  ELSE LET half == 4 * ((Len(s) \div 4 + 1) \div 2) IN
         DecodeGroups(SubSeq(s, 1, half)) \o DecodeGroups(SubSeq(s, half + 1, Len(s)))

Base64Decode(s) == DecodeGroups(Sextets(s))

\* Buffer.from(v, 'base64').toString('utf-8') for any value: a string is
\* decoded, null, undefined or a plain object make Buffer.from throw.
BufferFromBase64(v) ==
  IF v.t = "string" THEN Return(Str(Base64Decode(v.s)))
  ELSE Throw(TypeError("The first argument must be of type string or an instance of Buffer, "
                       \o "ArrayBuffer, or Array or an Array-like Object."))

\* JSON.parse, as far as the handlers need it: whether the text is JSON.  The
\* texts are without whitespace between the tokens, their strings without
\* escapes, their numbers integers.
Digits == "0123456789"

IsDigit(c) == IndexOf(Digits, c) >= 0

\* The position after the string literal that starts at i; 0 when there is
\* none.
RECURSIVE StringBody(_, _)
StringBody(s, j) ==
  IF j > Len(s) THEN 0
  ELSE IF CharAt(s, j) = "\"" THEN j + 1
  ELSE IF CharAt(s, j) \in {"\\", "\n", "\t"} THEN 0
  ELSE StringBody(s, j + 1)

StringEnd(s, i) ==
  IF i <= Len(s) /\ CharAt(s, i) = "\"" THEN StringBody(s, i + 1) ELSE 0

RECURSIVE DigitsEnd(_, _)
DigitsEnd(s, j) == IF j <= Len(s) /\ IsDigit(CharAt(s, j)) THEN DigitsEnd(s, j + 1) ELSE j

IntegerEnd(s, i) ==
  IF i > Len(s) \/ ~IsDigit(CharAt(s, i)) THEN 0
  ELSE IF CharAt(s, i) = "0" THEN i + 1
  ELSE DigitsEnd(s, i)

NumberEnd(s, i) ==
  IF i <= Len(s) /\ CharAt(s, i) = "-" THEN IntegerEnd(s, i + 1) ELSE IntegerEnd(s, i)

LiteralEnd(s, i, w) ==
  IF SubSeq(s, i, i + Len(w) - 1) = w THEN i + Len(w) ELSE 0

\* The position after the value that starts at i; 0 when there is none.
RECURSIVE ValueEnd(_, _)
RECURSIVE ElementsEnd(_, _)
RECURSIVE MembersEnd(_, _)
ValueEnd(s, i) ==
  IF i > Len(s) THEN 0
  ELSE LET c == CharAt(s, i) IN
    CASE c = "\"" -> StringEnd(s, i)
      [] c = "[" -> IF i < Len(s) /\ CharAt(s, i + 1) = "]" THEN i + 2 ELSE ElementsEnd(s, i + 1)
      [] c = "{" -> IF i < Len(s) /\ CharAt(s, i + 1) = "}" THEN i + 2 ELSE MembersEnd(s, i + 1)
      [] c = "t" -> LiteralEnd(s, i, "true")
      [] c = "f" -> LiteralEnd(s, i, "false")
      [] c = "n" -> LiteralEnd(s, i, "null")
      [] OTHER -> NumberEnd(s, i)

ElementsEnd(s, i) ==
  LET v == ValueEnd(s, i) IN
    IF v = 0 \/ v > Len(s) THEN 0
    ELSE IF CharAt(s, v) = "," THEN ElementsEnd(s, v + 1)
    ELSE IF CharAt(s, v) = "]" THEN v + 1
    ELSE 0

MembersEnd(s, i) ==
  LET k == StringEnd(s, i) IN
    IF k = 0 \/ k > Len(s) \/ CharAt(s, k) # ":" THEN 0
    ELSE LET v == ValueEnd(s, k + 1) IN
      IF v = 0 \/ v > Len(s) THEN 0
      ELSE IF CharAt(s, v) = "," THEN MembersEnd(s, v + 1)
      ELSE IF CharAt(s, v) = "}" THEN v + 1
      ELSE 0

JSONValid(s) == ValueEnd(s, 1) = Len(s) + 1

Spaces(n) == SubSeq("                                        ", 1, 2 * n)

\* JSON.stringify(JSON.parse(s), null, 2) for a JSON text s: what the
\* character at position i becomes at nesting depth d, inside a string literal
\* (q) or not, and the depth and q after it.
IndentedChar(s, i, d, q) ==
  LET c == CharAt(s, i) IN
    IF q THEN [text |-> c, d |-> d, q |-> c # "\""]
    ELSE CASE c = "\"" -> [text |-> c, d |-> d, q |-> TRUE]
           [] c \in {"[", "{"} ->
                [ text |-> IF CharAt(s, i + 1) \in {"]", "}"} THEN c
                           ELSE c \o "\n" \o Spaces(d + 1),
                  d |-> d + 1, q |-> FALSE ]
           [] c \in {"]", "}"} ->
                [ text |-> IF i > 1 /\ CharAt(s, i - 1) \in {"[", "{"} THEN c
                           ELSE "\n" \o Spaces(d - 1) \o c,
                  d |-> d - 1, q |-> FALSE ]
           [] c = "," -> [text |-> ",\n" \o Spaces(d), d |-> d, q |-> FALSE]
           [] c = ":" -> [text |-> ": ", d |-> d, q |-> FALSE]
           [] OTHER -> [text |-> c, d |-> d, q |-> FALSE]

\* The same for the characters from position lo to position hi.
RECURSIVE IndentedPart(_, _, _, _, _)
IndentedPart(s, lo, hi, d, q) ==
  IF lo > hi THEN [text |-> "", d |-> d, q |-> q]
  ELSE IF lo = hi THEN IndentedChar(s, lo, d, q)
  ELSE LET mid == (lo + hi) \div 2
           left == IndentedPart(s, lo, mid, d, q)
           right == IndentedPart(s, mid + 1, hi, left.d, left.q)
       IN [text |-> left.text \o right.text, d |-> right.d, q |-> right.q]

Indented(s) == IndentedPart(s, 1, Len(s), 0, FALSE).text

\* `Math.round(exportData.length * 0.75 / 1024)` in a template literal: NaN
\* when the value has no length.
SizeKB(v) ==
  IF v.t = "string" THEN ToString((3 * Len(v.s) + 2048) \div 4096) ELSE "NaN"

\* Reading `.length` of the value: the TypeError for null and undefined.
LengthRead(v) ==
  IF Nullish(v)
  THEN Throw(TypeError("Cannot read properties of " \o v.t \o " (reading 'length')"))
  ELSE Return(v)

----------------------------------------------------------------------------
\* exportResponses (src/tools/responses.ts) after its gateway call.

textFormats == {"csv", "json", "txt", "html"}

\* The test of the format on the documentType as it was given.
isBinaryFormat_CaseSensitive(documentType) == documentType \notin textFormats

isBinaryFormat(documentType) == ToLowerCase(documentType) \notin textFormats

\* The preview of the decoded data: its first 1000 characters, of its
\* indented JSON when the format is json and the data are JSON, and the mark
\* of the truncation.
previewText(documentType, decodedData) ==
  (IF ToLowerCase(documentType) = "json" /\ JSONValid(decodedData)
   THEN Substring(Indented(decodedData), 0, 1000)
   ELSE Substring(decodedData, 0, 1000))
  \o (IF Len(decodedData) > 1000 THEN "\n...[truncated]" ELSE "")

ExportedAs(a) ==
  "Responses for survey ID " \o a.surveyId \o " exported successfully as " \o a.documentType

EncodedInfo(a) == ExportedAs(a) \o " (base64 encoded, ~" \o SizeKB(a.exportData) \o " KB)"

\* The content the try block builds from the exported data: the preview, the
\* note of the failed decoding, or the size alone.
ExportResponsesContent(a) ==
  IF a.decodeOutput /\ ~isBinaryFormat(a.documentType) /\ Truthy(a.exportData)
  THEN IF BufferFromBase64(a.exportData).kind = "return"
       THEN Content(<<ExportedAs(a),
                      "Preview of exported data:\n\n"
                      \o previewText(a.documentType, BufferFromBase64(a.exportData).val.s)>>)
       ELSE Content(<<EncodedInfo(a),
                      "Failed to decode base64 data: "
                      \o BufferFromBase64(a.exportData).val.s>>)
  ELSE Content(<<EncodedInfo(a)>>)

\* What the handler returns for the value its gateway call returned.
ExportResponsesResult(a) ==
  IF (a.decodeOutput /\ ~isBinaryFormat(a.documentType) /\ Truthy(a.exportData))
     \/ LengthRead(a.exportData).kind = "return"
  THEN ExportResponsesContent(a)
  ELSE ErrorContent(<<"Error exporting responses: " \o LengthRead(a.exportData).val.s>>)

----------------------------------------------------------------------------
\* exportStatistics (the statistics module) after its gateway call.

fileExtension(documentType) ==
  IF documentType = "pdf" THEN "pdf" ELSE IF documentType = "xls" THEN "xls" ELSE "html"

\* The preview made for every format.
StatisticsPreview_Always(a) ==
  "\nHTML Preview (first 300 characters):\n"
  \o Substring(Base64Decode(a.exportData.s), 0, 300) \o "..."

\* `previewText`: the first 300 characters of the decoded data for html, the
\* note that the file was generated for the other formats.
StatisticsPreview(a) ==
  IF a.documentType = "html"
  THEN IF BufferFromBase64(a.exportData).kind = "return"
       THEN "\nHTML Preview (first 300 characters):\n"
            \o Substring(BufferFromBase64(a.exportData).val.s, 0, 300) \o "..."
       ELSE "\nUnable to generate HTML preview."
  ELSE "\nThe " \o ToUpperCase(fileExtension(a.documentType))
       \o " file was successfully generated."

\* What the handler returns for the value its gateway call returned.
ExportStatisticsResult(a) ==
  IF LengthRead(a.exportData).kind = "return"
  THEN Content(<<"Statistics for survey ID " \o a.surveyId \o " exported successfully as "
                   \o ToUpperCase(a.documentType)
                   \o (IF a.includeGraphs THEN " with graphs" ELSE "") \o ".",
                 "The exported statistics file is base64 encoded and has a size of approximately "
                   \o SizeKB(a.exportData) \o " KB." \o StatisticsPreview(a)>>)
  ELSE ErrorContent(<<"Error exporting statistics: " \o LengthRead(a.exportData).val.s>>)

----------------------------------------------------------------------------
\* The export handlers on their own: the arguments and the exported data are
\* any of a few, the handler builds its result.

RECURSIVE Repeat(_, _)
Repeat(s, n) ==
  IF n = 0 THEN "" ELSE IF n = 1 THEN s
  ELSE Repeat(s, n \div 2) \o Repeat(s, n - n \div 2)

\* Exported data: nothing, "hello", a CSV text of two lines, a JSON text, the
\* same with padding, a page of HTML, and 1026 characters of text.
Exports ==
  { Str(""), Str("aGVsbG8="), Str("aWQsbmFtZQoxLEFubg=="),
    Str("eyJyZXNwb25zZXMiOlt7ImlkIjoiMSIsIm9rIjp0cnVlfSx7fV19"),
    Str("eyJhIjoxfQ=="),
    Str("PGh0bWw+PGJvZHk+U3RhdGlzdGljczwvYm9keT48L2h0bWw+"),
    Str(Repeat("aGVsbG8s", 171)) }

\* What the gateway call may return: exported data, and what the remote
\* answers in their place, null or a status object.
Exported == Exports \cup {Null, Obj("{\"status\":\"No Data, survey table does not exist.\"}")}

ExportResponsesArgs ==
  [ tool : {"exportResponses"}, surveyId : {"42"},
    documentType : {"csv", "CSV", "json", "Json", "txt", "html", "pdf", "xls", "PDF"},
    decodeOutput : BOOLEAN, includeGraphs : {FALSE}, exportData : Exported ]

ExportStatisticsArgs ==
  [ tool : {"exportStatistics"}, surveyId : {"42"},
    documentType : {"pdf", "xls", "html"},
    decodeOutput : {FALSE}, includeGraphs : BOOLEAN, exportData : Exported ]

ExportInit ==
  /\ GatewayInit
  /\ LIMESURVEY_USERNAME = Str("u") /\ LIMESURVEY_PASSWORD = Str("p")
  /\ READONLY_MODE = Undefined
  /\ registered = {} /\ tool = NoInvocation /\ toolLast = NoFinished
  /\ shutdown = [p \in Tasks |-> ""] /\ exitCode = ""
  /\ released = [p \in Tasks |-> NoOutcome]
  /\ args \in ExportResponsesArgs \cup ExportStatisticsArgs
  /\ built = NoResult

\* The part of the state the export handlers leave alone.
gateway ==
  <<env, sessionKey, pc, op, req, resp, sentBy, remoteKeys, issued, last, nAuth, clean,
    returned, fresh>>

ExportResponsesReturns ==
  /\ args.tool = "exportResponses" /\ built = NoResult
  /\ built' = ExportResponsesResult(args)
  /\ UNCHANGED <<gateway, toolVars, serverVars, args>>

ExportStatisticsReturns ==
  /\ args.tool = "exportStatistics" /\ built = NoResult
  /\ built' = ExportStatisticsResult(args)
  /\ UNCHANGED <<gateway, toolVars, serverVars, args>>

NextExport ==
  \/ ExportResponsesReturns
  \/ ExportStatisticsReturns

SpecExport == ExportInit /\ [][NextExport]_vars

----------------------------------------------------------------------------
\* findSurvey (the surveys module) after its gateway call.

Num(n) == [t |-> "number", s |-> ToString(n)]

\* A survey of the list_surveys result: a field the object lacks is
\* Undefined.
Survey(sid, title, created, startdate, datecreated) ==
  [ sid |-> sid, surveyls_title |-> title, created |-> created, startdate |-> startdate,
    datecreated |-> datecreated ]

SurveyFields == <<"sid", "surveyls_title", "created", "startdate", "datecreated">>

\* The value listSurveys() returned: an array of surveys, or a value that is
\* no array.
SurveyArray(items) == [isArray |-> TRUE, items |-> items]

NoSurveyArray == [isArray |-> FALSE, items |-> <<>>]

\* String.prototype.localeCompare, for texts of digits and punctuation such
\* as dates: negative, zero or positive.
RECURSIVE localeCompare(_, _)
localeCompare(a, b) ==
  IF Len(a) = 0 /\ Len(b) = 0 THEN 0
  ELSE IF Len(a) = 0 THEN -1
  ELSE IF Len(b) = 0 THEN 1
  ELSE IF CharAt(a, 1) = CharAt(b, 1)
       THEN localeCompare(SubSeq(a, 2, Len(a)), SubSeq(b, 2, Len(b)))
       ELSE IF IndexOf(Printable, CharAt(a, 1)) < IndexOf(Printable, CharAt(b, 1)) THEN -1 ELSE 1

\* The callback of allSurveys.filter: `survey.sid.toString() === searchTerm`
\* or the title in lower case includes the search term in lower case.
Matches(survey, searchTerm) ==
  \/ Truthy(survey.sid) /\ survey.sid.s = searchTerm
  \/ /\ Truthy(survey.surveyls_title)
     /\ Includes(ToLowerCase(survey.surveyls_title.s), ToLowerCase(searchTerm))

RECURSIVE Filter(_, _)
Filter(surveys, searchTerm) ==
  IF surveys = <<>> THEN <<>>
  ELSE (IF Matches(Head(surveys), searchTerm) THEN <<Head(surveys)>> ELSE <<>>)
       \o Filter(Tail(surveys), searchTerm)

\* `a.created || a.startdate || a.datecreated || '0'`
SortDate(survey) ==
  IF Truthy(survey.created) THEN survey.created.s
  ELSE IF Truthy(survey.startdate) THEN survey.startdate.s
  ELSE IF Truthy(survey.datecreated) THEN survey.datecreated.s
  ELSE "0"

\* The comparator of matchedSurveys.sort: `dateB.localeCompare(dateA)`
CompareSurveys(a, b) == localeCompare(SortDate(b), SortDate(a))

\* Array.prototype.sort, which is stable: x goes behind the surveys the
\* comparator does not put behind it.
RECURSIVE Insert(_, _)
Insert(x, sorted) ==
  IF sorted = <<>> THEN <<x>>
  ELSE IF CompareSurveys(Head(sorted), x) <= 0 THEN <<Head(sorted)>> \o Insert(x, Tail(sorted))
  ELSE <<x>> \o sorted

RECURSIVE Sort(_)
Sort(surveys) ==
  IF surveys = <<>> THEN <<>>
  ELSE Insert(surveys[Len(surveys)], Sort(SubSeq(surveys, 1, Len(surveys) - 1)))

\* `if (limit && limit > 0) matchedSurveys = matchedSurveys.slice(0, limit)`
Slice(surveys, limit) ==
  IF limit # 0 /\ limit > 0
  THEN SubSeq(surveys, 1, IF limit < Len(surveys) THEN limit ELSE Len(surveys))
  ELSE surveys

matchedSurveys(a) == Slice(Sort(Filter(a.allSurveys.items, a.searchTerm)), a.limit)

RECURSIVE Join(_, _)
Join(texts, separator) ==
  IF texts = <<>> THEN ""
  ELSE IF Len(texts) = 1 THEN texts[1]
  ELSE texts[1] \o separator \o Join(Tail(texts), separator)

\* JSON.stringify of a survey without indentation: the fields it has.
RECURSIVE SurveyMembers(_, _)
SurveyMembers(survey, fields) ==
  IF fields = <<>> THEN <<>>
  ELSE (IF survey[Head(fields)] = Undefined THEN <<>>
        ELSE <<"\"" \o Head(fields) \o "\":" \o JSONStringify(survey[Head(fields)])>>)
       \o SurveyMembers(survey, Tail(fields))

SurveyJSON(survey) == "{" \o Join(SurveyMembers(survey, SurveyFields), ",") \o "}"

\* JSON.stringify(matchedSurveys, null, 2)
SurveysJSON(surveys) ==
  Indented("[" \o Join([i \in 1..Len(surveys) |-> SurveyJSON(surveys[i])], ",") \o "]")

\* What the handler returns for the value its gateway call returned.
FindSurveyResult(a) ==
  IF ~a.allSurveys.isArray \/ Len(a.allSurveys.items) = 0
  THEN Content(<<"No surveys found in the system.">>)
  ELSE IF Len(matchedSurveys(a)) = 0
  THEN Content(<<"No surveys found matching '" \o a.searchTerm \o "'.">>)
  ELSE Content(<<"Found " \o ToString(Len(matchedSurveys(a))) \o " survey(s) matching '"
                   \o a.searchTerm \o "' (showing newest first):",
                 SurveysJSON(matchedSurveys(a))>>)

----------------------------------------------------------------------------
\* findSurvey on its own: the arguments and the list of surveys are any of a
\* few, the handler builds its result.

\* Surveys: with `created`; with a start date and a creation date in
\* `datecreated`, twice; with a number for its id, no title and no date.
Surveys ==
  { Survey(Str("1"), Str("Alpha One"), Str("2024-02"), Undefined, Undefined),
    Survey(Str("21"), Str("alpha two"), Undefined, Str("2023-05"), Str("2020-01")),
    Survey(Str("3"), Str("Beta 1"), Undefined, Str("2021-07"), Str("2022-03")),
    Survey(Num(4), Null, Undefined, Null, Undefined) }

MaxSurveys == 3        \* surveys in the list_surveys result

\* The lists of up to MaxSurveys surveys, none twice.
SurveyLists ==
  UNION { { l \in [1..n -> Surveys] : \A i, j \in 1..n : i # j => l[i] # l[j] } : n \in 0..MaxSurveys }

SearchTerms == {"1", "4", "alpha", "ALPHA", "a", "zzz"}

Limits == {-1, 0, 1, 2, 10}

FindSurveyArgs ==
  [ tool : {"findSurvey"}, searchTerm : SearchTerms, limit : Limits,
    allSurveys : { SurveyArray(l) : l \in SurveyLists } \cup {NoSurveyArray} ]

FindInit ==
  /\ GatewayInit
  /\ LIMESURVEY_USERNAME = Str("u") /\ LIMESURVEY_PASSWORD = Str("p")
  /\ READONLY_MODE = Undefined
  /\ registered = {} /\ tool = NoInvocation /\ toolLast = NoFinished
  /\ shutdown = [p \in Tasks |-> ""] /\ exitCode = ""
  /\ released = [p \in Tasks |-> NoOutcome]
  /\ args \in FindSurveyArgs
  /\ built = NoResult

FindSurveyReturns ==
  /\ args.tool = "findSurvey" /\ built = NoResult
  /\ built' = FindSurveyResult(args)
  /\ UNCHANGED <<gateway, toolVars, serverVars, args>>

NextFind == FindSurveyReturns

SpecFind == FindInit /\ [][NextFind]_vars

----------------------------------------------------------------------------
\* The session-key lifecycle.

AuthInFlight == \E p \in Tasks : req[p].method = "get_session_key"

\* The session keys this process holds at the remote: created, handed to this
\* process and not released.
ActiveTokens ==
  { k \in remoteKeys :
      \A p \in Tasks : ~(pc[p] = "received" /\ req[p].method = "get_session_key"
                          /\ resp[p].result.s = k) }

\* C1: as long as no releaseSessionKey call has been made and every
\* authentication has succeeded, at most one get_session_key request has been
\* issued, whether the getSessionKey calls were sequential or overlapped.
C1_AtMostOneAuthenticate ==
  (clean /\ ~AuthInFlight) => nAuth <= 1

\* C2: at most one session key obtained by this process is active at the
\* remote at any time.
C2_AtMostOneActiveToken ==
  Cardinality(ActiveTokens) <= 1

\* C3: once getSessionKey has returned a token and no releaseSessionKey has
\* run since, a later getSessionKey call returns that same token and issues
\* no request.
C3_LaterCallsReturnSameToken ==
  [][\A p \in Tasks :
       (GetSessionKeyCall(p) /\ returned # {})
         => /\ pc'[p] = "idle" /\ req'[p] = NoRequest
            /\ last'.op = "getSessionKey" /\ last'.sent = 0
            /\ last'.out.kind = "return"
            /\ returned = {last'.out.val.s}]_vars

\* C4: after a releaseSessionKey that had a cached key has returned true,
\* the next call that needs a token starts with one get_session_key request.
C4_NextCallAuthenticatesOnce ==
  [][\A p \in Tasks :
       (ListSurveysCall(p) /\ fresh)
         => /\ pc'[p] = "sent" /\ sentBy'[p] = 1
            /\ req'[p].method = "get_session_key"]_vars

\* A request succeeded: the HTTP call went through and the envelope carries
\* no error.  A request failed: transport error or remote error.
NonEmpty(e) == e \notin {Undefined, Null, Str("")}

RequestSucceeded(r) == r.k = "data" /\ ~NonEmpty(r.error)

RequestFailed(r) == r.k = "fail" \/ (r.k = "data" /\ NonEmpty(r.error))

\* Task p's call of releaseSessionKey settles in this step.
ReleaseSettles(p) == op[p] = "releaseSessionKey" /\ pc'[p] = "idle"

\* C5: releaseSessionKey with no cached key returns true and issues no
\* request; with a cached key it issues one release_session_key request
\* carrying that key, and when that request succeeds it clears the cache and
\* returns true.
C5_ReleaseSessionKey ==
  [][\A p \in Tasks :
       /\ (ReleaseSessionKeyCall(p) /\ sessionKey = Null)
            => /\ pc'[p] = "idle" /\ req'[p] = NoRequest
               /\ last'.op = "releaseSessionKey" /\ last'.sent = 0
               /\ last'.out = Return(Bool(TRUE))
       /\ (ReleaseSessionKeyCall(p) /\ sessionKey # Null)
            => /\ pc'[p] = "sent" /\ sentBy'[p] = 1
               /\ req'[p] = Request("release_session_key", <<sessionKey>>)
       /\ (ReleaseSettles(p) /\ RequestSucceeded(last'.resp))
            => /\ sessionKey' = Null
               /\ last'.sent = 1
               /\ last'.out = Return(Bool(TRUE))]_vars

\* A releaseSessionKey call that had a cached key has returned true, and the
\* cache is empty.
C5_Witness ==
  /\ last.op = "releaseSessionKey" /\ last.method = "release_session_key"
  /\ RequestSucceeded(last.resp)
  /\ last.out = Return(Bool(TRUE))
  /\ sessionKey = Null

\* C6: when the release_session_key request fails (transport error or remote
\* error), releaseSessionKey returns false, raises nothing and leaves the
\* cached key as it was.
C6_ReleaseFailureKeepsKey ==
  [][\A p \in Tasks :
       (ReleaseSettles(p) /\ RequestFailed(last'.resp))
         => /\ last'.out = Return(Bool(FALSE))
            /\ sessionKey' = sessionKey]_vars

\* A releaseSessionKey call has returned false after a failed request, and
\* the key is still cached.
C6_Witness ==
  /\ last.op = "releaseSessionKey"
  /\ RequestFailed(last.resp)
  /\ last.out = Return(Bool(FALSE))
  /\ sessionKey # Null

----------------------------------------------------------------------------
\* request() and the errors that reach the caller.

ApiErrorPrefix == "LimeSurvey API error: "

\* The Error request() throws for an envelope with an error field.
IsRemoteProcedureError(e) ==
  /\ e.t = "Error"
  /\ Len(e.s) >= Len(ApiErrorPrefix)
  /\ SubSeq(e.s, 1, Len(ApiErrorPrefix)) = ApiErrorPrefix

\* C7: request() throws a remote-procedure error whenever the envelope of a
\* successful HTTP call carries a non-empty error field; it returns no result
\* then.
C7_ErrorFieldRaises ==
  (last.resp.k = "data" /\ NonEmpty(last.resp.error))
    => /\ last.reqOut.kind = "throw"
       /\ IsRemoteProcedureError(last.reqOut.val)

\* An envelope with both a result and an error field made request() throw.
C7_Witness ==
  /\ last.resp = Data(SurveyList, Str("Invalid session key"))
  /\ last.reqOut.kind = "throw"

\* C8: request() returns the result field verbatim whenever the envelope
\* carries no error field, also a null or empty result, and listSurveys hands
\* that result to its caller.
C8_ResultVerbatim ==
  (last.resp.k = "data" /\ last.resp.error = Undefined)
    => /\ last.reqOut = Return(last.resp.result)
       /\ (last.op = "listSurveys" /\ last.method = "list_surveys"
             => last.out = Return(last.resp.result))

\* A null result without an error field was returned as null.
C8_Witness ==
  /\ last.op = "listSurveys"
  /\ last.resp = Data(Null, Undefined)
  /\ last.out = Return(Null)

\* The list_surveys request of the settled listSurveys call was answered
\* {error: "Invalid session key"}.
InvalidSessionKeyAnswer ==
  /\ last.op = "listSurveys" /\ last.method = "list_surveys"
  /\ last.resp.k = "data" /\ last.resp.error = Str("Invalid session key")

C10_ErrorsUnchanged ==
  (last.op = "listSurveys" /\ last.reqOut.kind = "throw")
    => last.out = last.reqOut

\* C10 as amended: an error thrown by the list_surveys request reaches the
\* caller as the same error; an error thrown by the get_session_key request
\* reaches the caller replaced by a new Error whose message is "Failed to get
\* LimeSurvey session key: " followed by the message of the original.
C10_DomainErrorsUnchanged ==
  (last.op = "listSurveys" /\ last.reqOut.kind = "throw")
    => IF last.method = "get_session_key"
       THEN last.out = Throw(Err("Failed to get LimeSurvey session key: "
                                 \o last.reqOut.val.s))
       ELSE last.out = last.reqOut

\* A transport failure of the list_surveys request has reached the caller of
\* listSurveys.
C10_Witness ==
  /\ last.op = "listSurveys" /\ last.method = "list_surveys"
  /\ last.resp = TransportFailure
  /\ last.out = Throw(AxiosError("Network Error"))

----------------------------------------------------------------------------
\* Credentials and the validation of the key.

\* The username or the password is missing from the configuration.
NoCredentials ==
  \/ LIMESURVEY_USERNAME \in {Undefined, Null, Str("")}
  \/ LIMESURVEY_PASSWORD \in {Undefined, Null, Str("")}

\* C11: when username or password is missing, getSessionKey fails with the
\* configuration error and issues no request, and so no sequence of calls
\* ever issues an outbound request: none is in flight, none was sent by a
\* settled call, the remote has created no key and nothing is cached.
C11_NoRequestWithoutCredentials ==
  NoCredentials =>
    /\ \A p \in Tasks : pc[p] = "idle" /\ req[p] = NoRequest
    /\ issued = 0 /\ sessionKey = Null
    /\ last.sent = 0 /\ last.resp = NoResponse
    /\ toolLast.sent = 0
    /\ last.op \in {"getSessionKey", "listSurveys"}
         => last.out = Throw(Err("LimeSurvey credentials not found in environment variables"))

\* A listSurveys call has failed with the configuration error, without a
\* request.
C11_Witness ==
  /\ NoCredentials
  /\ last.op = "listSurveys" /\ last.sent = 0
  /\ last.out = Throw(Err("LimeSurvey credentials not found in environment variables"))

\* The envelope answers get_session_key with something that is no non-empty
\* string: null, a non-string value, an empty or a blank string.
InvalidKeyAnswer(r) ==
  /\ r.k = "data" /\ ~NonEmpty(r.error)
  /\ ~(r.result.t = "string" /\ Trim(r.result.s) # "")

EmptyOrInvalidResponse ==
  Err("Failed to get LimeSurvey session key: "
      \o "Failed to get session key: Empty or invalid response from LimeSurvey API")

\* The cache holds null or a non-empty string the remote returned for a
\* get_session_key request.
CacheValid ==
  \/ sessionKey = Null
  \/ /\ sessionKey.t = "string" /\ Trim(sessionKey.s) # ""
     /\ sessionKey.s \in { Key(n) : n \in 1..issued }

\* C12: when the get_session_key request returns anything other than a
\* non-empty string, the call fails with the "Empty or invalid response"
\* error and the cache is left as it was; the cache only ever holds null or a
\* non-empty string returned by a successful get_session_key.
C12_InvalidKeyRejected ==
  /\ []CacheValid
  /\ [][\A p \in Tasks :
          (/\ req[p].method = "get_session_key" /\ pc'[p] = "idle"
           /\ InvalidKeyAnswer(last'.resp))
            => /\ last'.out = Throw(EmptyOrInvalidResponse)
               /\ sessionKey' = sessionKey]_vars

\* A getSessionKey call answered with a blank string has failed, and nothing
\* is cached.
C12_Witness ==
  /\ last.op = "getSessionKey"
  /\ last.resp = Data(Str("  "), Null)
  /\ last.out = Throw(EmptyOrInvalidResponse)
  /\ sessionKey = Null

----------------------------------------------------------------------------
\* The tool adapters.

\* C13: an adapter with a confirmation field makes no gateway call, issues
\* no request and returns an error-flagged result when the confirmation value
\* is absent or false, and makes exactly one gateway call when it is true.
C13_ConfirmationGuardsGatewayCall ==
  /\ toolLast.adapter.confirm # ""
       => /\ toolLast.confirm \in {Undefined, Bool(FALSE)}
               => /\ toolLast.calls = 0 /\ toolLast.sent = 0
                  /\ toolLast.out.kind = "return" /\ toolLast.out.isError
          /\ toolLast.confirm = Bool(TRUE) => toolLast.calls = 1
  /\ tool.adapter.confirm # ""
       => tool.confirm = Bool(TRUE) /\ tool.calls = 1

\* deleteSurvey was confirmed, made its one gateway call, and the survey was
\* deleted.
C13_Witness ==
  /\ toolLast.adapter.name = "deleteSurvey"
  /\ toolLast.confirm = Bool(TRUE)
  /\ toolLast.calls = 1 /\ toolLast.sent >= 1
  /\ toolLast.gateway.kind = "return"

\* The remote procedures that cannot be undone: delete participants, delete
\* survey, delete all responses, reset responses.
IrreversibleProcedures ==
  {"delete_participants", "delete_survey", "delete_all_responses", "reset_survey_logic_file"}

\* C14: every adapter that performs an irreversible operation has a
\* confirmation field, and no request for an irreversible procedure is sent
\* on behalf of an invocation whose confirmation value is not true.
C14_IrreversibleNeedsConfirmation ==
  \A p \in Tasks :
    (tool # NoInvocation /\ req[p].method \in IrreversibleProcedures)
      => tool.adapter.confirm # "" /\ tool.confirm = Bool(TRUE)

\* What the catch block is to return for error e caught in adapter a.
ErrorResponseFor(a, e) ==
  [ kind |-> "return", isError |-> TRUE,
    content |-> <<a.prefix \o (IF e.s = "" THEN "Unknown error" ELSE e.s)>> ]

C16_EmptyResultIsNoError ==
  (toolLast.gateway.kind = "return" /\ toolLast.gateway.val \in {Null, Obj("[]"), Obj("{}")})
    => ~toolLast.out.isError

\* C20: an adapter invocation that the confirmation guard lets through makes
\* exactly one call into the limesurveyAPI object.
C20_OneGatewayCallPerInvocation ==
  /\ tool.calls <= 1
  /\ (toolLast # NoFinished /\ ~toolLast.refused) => toolLast.calls = 1

----------------------------------------------------------------------------
\* The token in the requests.

\* Task p issues a request in this step.
Issues(p) == req'[p] # req[p] /\ req'[p] # NoRequest

\* C17: every request other than get_session_key carries as params[0] the
\* session key that is in the cache at the moment the request is issued.
C17_FirstParamIsCurrentToken ==
  [][\A p \in Tasks :
       (Issues(p) /\ req'[p].method # "get_session_key")
         => /\ Len(req'[p].params) >= 1
            /\ sessionKey' # Null
            /\ req'[p].params[1] = sessionKey']_vars

\* Two list_surveys requests are in flight with different tokens, each the
\* cached one when it was issued.
C17_Witness ==
  \E p, q \in Tasks :
    /\ req[p].method = "list_surveys" /\ req[q].method = "list_surveys"
    /\ req[p].params # req[q].params
    /\ req[q].params = <<sessionKey>>

----------------------------------------------------------------------------
\* The server.

\* The remote procedures that change remote state: activate, add, import,
\* copy, delete, update, upload, reset.
MutatingProcedures ==
  { "activate_survey", "add_participants", "add_response", "import_survey", "import_group",
    "import_responses", "copy_survey", "delete_survey", "delete_response",
    "delete_all_responses", "delete_participants", "update_response", "set_response_status",
    "upload_file", "reset_survey_logic_file" }

\* C18: with READONLY_MODE=true no registered adapter requests a procedure
\* that changes remote state.
C18_ReadOnlyRegistersNoMutatingTool ==
  READONLY_MODE = Str("true")
    => \A a \in registered : a.proc \notin MutatingProcedures

Signalled == \E p \in Handlers : shutdown[p] # ""

\* C19: the process exits only from a shutdownServer() whose
\* releaseSessionKey() call has been made and has settled, and once a signal
\* has started shutdownServer() the process reaches exit, whether the release
\* succeeded, failed or was refused.
C19_ShutdownReleasesThenExits ==
  /\ [][(exitCode = "" /\ exitCode' # "")
          => \E p \in Handlers : shutdown[p] = "close"]_vars
  /\ (Signalled ~> exitCode # "")

\* The process has exited although the release failed: the key is still
\* cached and still active at the remote.
C19_Witness ==
  /\ exitCode # ""
  /\ sessionKey # Null /\ sessionKey.s \in remoteKeys
  /\ last.op = "releaseSessionKey" /\ last.out = Return(Bool(FALSE))

----------------------------------------------------------------------------
\* Retries.

\* Task p is inside a call that has a request out.
InCall(p) == pc[p] # "idle"

\* C21: one convenience-method invocation issues at most one get_session_key
\* request and at most one domain request: a request issued inside a running
\* call is the domain request, it follows a get_session_key request that
\* succeeded, and nothing follows the domain request; so after either request
\* fails the call ends without a further request.
C21_NoRetries ==
  [][\A p \in Tasks :
       /\ (InCall(p) /\ Issues(p))
            => /\ req[p].method = "get_session_key"
               /\ pc[p] = "received" /\ RequestSucceeded(resp[p])
               /\ req'[p].method # "get_session_key"
               /\ sentBy[p] = 1 /\ sentBy'[p] = 2
       /\ (~InCall(p) /\ Issues(p)) => sentBy'[p] = 1
       /\ (InCall(p) /\ pc'[p] = "idle" /\ last'.op = op[p] /\ RequestFailed(last'.resp))
            => req'[p] = NoRequest /\ last'.sent <= 2]_vars

\* A listSurveys call has authenticated, its list_surveys request has failed
\* and the call has ended with that error after its two requests.
C21_Witness ==
  /\ last.op = "listSurveys" /\ last.method = "list_surveys"
  /\ RequestFailed(last.resp)
  /\ last.sent = 2
  /\ last.out.kind = "throw"

----------------------------------------------------------------------------
\* Overlapping authentications.

\* A get_session_key request of a task other than p is in flight.
OtherAuthInFlight(p) ==
  \E q \in Tasks \ {p} : pc[q] # "idle" /\ req[q].method = "get_session_key"

\* C24: a getSessionKey call that starts on an empty cache while the
\* get_session_key request of another call is in flight issues its own
\* request; a call whose request succeeded returns the token of its own
\* response and caches it, so that after both have completed the cache holds
\* the token of the response that was handled last.
C24_OverlappingAuthentications ==
  [][\A p \in Tasks :
       /\ (GetSessionKeyCall(p) /\ sessionKey = Null /\ ~NoCredentials /\ OtherAuthInFlight(p))
            => /\ pc'[p] = "sent" /\ sentBy'[p] = 1
               /\ req'[p] = Request("get_session_key",
                                    <<LIMESURVEY_USERNAME, LIMESURVEY_PASSWORD>>)
       /\ (op[p] = "getSessionKey" /\ pc[p] = "received" /\ pc'[p] = "idle")
            => /\ last'.op = "getSessionKey"
               /\ last'.out = Return(resp[p].result)
               /\ sessionKey' = resp[p].result]_vars

\* Two getSessionKey calls overlapped on the empty cache and both have
\* completed: they returned K1 and K2, and the cache holds K1, the key that
\* was created first and whose response was handled last.
C24_Witness ==
  /\ \A p \in Tasks : pc[p] = "idle"
  /\ clean /\ nAuth = 2
  /\ returned = {Key(1), Key(2)}
  /\ last.op = "getSessionKey" /\ last.out = Return(Str(Key(1)))
  /\ sessionKey = Str(Key(1))

----------------------------------------------------------------------------
\* Failures and the cache.

\* The call that settled last is a listSurveys call whose list_surveys
\* request failed.
DomainRequestFailed(c) ==
  c.op = "listSurveys" /\ c.method = "list_surveys" /\ RequestFailed(c.resp)

\* C28: a listSurveys call whose list_surveys request fails ends without
\* another request and leaves the cache as it was; a listSurveys call that
\* starts next finds the key in the cache and sends it in a list_surveys
\* request, without a get_session_key request.
C28_FailedRequestKeepsKey ==
  [][\A p \in Tasks :
       /\ (req[p].method = "list_surveys" /\ pc'[p] = "idle" /\ DomainRequestFailed(last'))
            => /\ sessionKey' = sessionKey
               /\ req'[p] = NoRequest
               /\ last'.out.kind = "throw"
       /\ (DomainRequestFailed(last) /\ sessionKey # Null /\ ListSurveysCall(p))
            => /\ sentBy'[p] = 1
               /\ req'[p] = Request("list_surveys", <<sessionKey>>)
               /\ sessionKey' = sessionKey]_vars

\* A list_surveys request was answered "Invalid session key"; the key is
\* still cached and still active, and the next listSurveys call has sent it
\* again as its first request.
C28_Witness ==
  /\ DomainRequestFailed(last)
  /\ last.resp = Data(Undefined, Str("Invalid session key"))
  /\ sessionKey = Str(Key(1)) /\ issued = 1
  /\ \E p \in Tasks :
       /\ pc[p] = "sent" /\ sentBy[p] = 1
       /\ req[p] = Request("list_surveys", <<sessionKey>>)

\* The call that settled last is a getSessionKey call that failed.
AuthenticationFailed(c) == c.op = "getSessionKey" /\ c.out.kind = "throw"

\* Task p's call of getSessionKey ends in this step, in failure.
GetSessionKeyFails(p) ==
  /\ op[p] = "getSessionKey" \/ GetSessionKeyCall(p)
  /\ pc'[p] = "idle"
  /\ AuthenticationFailed(last')

NothingRunning == \A q \in Tasks : pc[q] = "idle"

\* C29: when a getSessionKey call fails the cache is empty, and the
\* getSessionKey call that starts next (the failed call being the last that
\* ended, nothing else running) repeats the credentials check: it fails with
\* the configuration error when they are missing and issues a get_session_key
\* request when they are present.
C29_FailedAuthenticationNotRemembered ==
  [][\A p \in Tasks :
       /\ GetSessionKeyFails(p) => sessionKey' = Null
       /\ (AuthenticationFailed(last) /\ NothingRunning /\ GetSessionKeyCall(p))
            => IF NoCredentials
               THEN pc'[p] = "idle" /\ last'.out = Throw(CredentialsError)
               ELSE /\ pc'[p] = "sent" /\ sentBy'[p] = 1
                    /\ req'[p].method = "get_session_key"]_vars

----------------------------------------------------------------------------
\* Releases that overlap with other calls.

\* The session keys the remote has created and released again.
ReleasedKeys == { Key(n) : n \in 1..issued } \ remoteKeys

\* C26: no request other than get_session_key and release_session_key leaves
\* with a session key that the remote has released after a
\* release_session_key request of this process.
C26_NoRequestWithReleasedKey ==
  [][\A p \in Tasks :
       (Issues(p) /\ req'[p].method \notin {"get_session_key", "release_session_key"})
         => req'[p].params[1].s \notin ReleasedKeys]_vars

\* C27: the completion of a releaseSessionKey call empties the cache only
\* when the cache holds the key the call sent in its release_session_key
\* request.
C27_ReleaseClearsOnlyItsKey ==
  [][\A p \in Tasks :
       (ReleaseSettles(p) /\ sessionKey # Null /\ sessionKey' = Null)
         => req[p].params = <<sessionKey>>]_vars

\* C25: when a shutdownServer() whose releaseSessionKey call returned true
\* has ended the process with code 0, no session key handed to this process
\* is active at the remote.
C25_ExitLeavesNoActiveKey ==
  \A p \in Handlers :
    (exitCode = "0" /\ shutdown[p] = "exit" /\ released[p] = Return(Bool(TRUE)))
      => ActiveTokens = {}

----------------------------------------------------------------------------
\* The export handlers.

\* What the exported data of the model are the base64 encoding of.
Plain ==
  [ d \in Exports |->
      CASE d = Str("aGVsbG8=") -> "hello"
        [] d = Str("aWQsbmFtZQoxLEFubg==") -> "id,name\n1,Ann"
        [] d = Str("eyJyZXNwb25zZXMiOlt7ImlkIjoiMSIsIm9rIjp0cnVlfSx7fV19")
             -> "{\"responses\":[{\"id\":\"1\",\"ok\":true},{}]}"
        [] d = Str("eyJhIjoxfQ==") -> "{\"a\":1}"
        [] d = Str("PGh0bWw+PGJvZHk+U3RhdGlzdGljczwvYm9keT48L2h0bWw+")
             -> "<html><body>Statistics</body></html>"
        [] d = Str("") -> ""
        [] OTHER -> Repeat("hello,", 171) ]

\* The text without its blanks and line ends.
RECURSIVE Squeeze(_)
Squeeze(s) ==
  IF Len(s) = 0 THEN ""
  ELSE IF Len(s) = 1 THEN (IF s \in {" ", "\n"} THEN "" ELSE s)
  ELSE Squeeze(SubSeq(s, 1, Len(s) \div 2)) \o Squeeze(SubSeq(s, Len(s) \div 2 + 1, Len(s)))

StartsWith(s, start) == SubSeq(s, 1, Len(start)) = start

EndsWith(s, end) == Len(s) >= Len(end) /\ SubSeq(s, Len(s) - Len(end) + 1, Len(s)) = end

TruncationMark == "\n...[truncated]"

WithoutMark(s) ==
  IF EndsWith(s, TruncationMark) THEN SubSeq(s, 1, Len(s) - Len(TruncationMark)) ELSE s

\* The text item is a preview of the plain text: after its title comes a
\* beginning of the plain text, or of the plain text laid out anew, and not
\* nothing.
IsPreviewOf(text, plain) ==
  /\ StartsWith(text, "Preview of exported data:\n\n")
  /\ LET body == WithoutMark(SubSeq(text, Len("Preview of exported data:\n\n") + 1, Len(text)))
     IN /\ Squeeze(body) # ""
        /\ StartsWith(Squeeze(plain), Squeeze(body))

\* The number of KB nearest to three quarters of the length.
NearestKB(len) == CHOOSE n \in 0..8 : (4096 * n - 3 * len) \in -2047..2048

\* An item of the content shows the data as they came, or what they decode
\* to.
ShowsEncoded(res, d) == \E i \in 1..Len(res.content) : Includes(res.content[i], d.s)

ShowsDecoded(res, d) ==
  \E i \in 1..Len(res.content) : Includes(res.content[i], Substring(Plain[d], 0, 5))

IsTextFormat(documentType) ==
  \E f \in {"csv", "json", "txt", "html"} :
    documentType \in {f, ToUpperCase(f), ToUpperCase(Substring(f, 0, 1)) \o Substring(f, 1, 4)}

\* The exportResponses handler has returned for exported data.
ExportResponsesReturned ==
  args.tool = "exportResponses" /\ built # NoResult /\ args.exportData \in Exports

\* C22: for a text format (csv, json, txt, html, in any case of the letters)
\* with decodeOutput true and exported data that are not empty, the content
\* of the exportResponses adapter has a preview of the decoded data and
\* nowhere the data as they came; for any other format, or with decodeOutput
\* false, the content is one item with the approximate size, and nowhere what
\* the data decode to.
C22_ExportResponsesPreview ==
  ExportResponsesReturned =>
    /\ (IsTextFormat(args.documentType) /\ args.decodeOutput /\ args.exportData # Str(""))
         => /\ ~built.isError /\ Len(built.content) = 2
            /\ IsPreviewOf(built.content[2], Plain[args.exportData])
            /\ ~ShowsEncoded(built, args.exportData)
    /\ (~IsTextFormat(args.documentType) \/ ~args.decodeOutput)
         => /\ ~built.isError /\ Len(built.content) = 1
            /\ EndsWith(built.content[1],
                        "~" \o ToString(NearestKB(Len(args.exportData.s))) \o " KB)")
            /\ args.exportData # Str("") => ~ShowsDecoded(built, args.exportData)

\* Responses exported as "CSV" were decoded: the content has the two lines of
\* the CSV text.
C22_Witness ==
  /\ ExportResponsesReturned
  /\ args.documentType = "CSV" /\ args.decodeOutput
  /\ args.exportData = Str("aWQsbmFtZQoxLEFubg==")
  /\ built.content[2] = "Preview of exported data:\n\nid,name\n1,Ann"

\* The exportStatistics handler has returned for exported data.
ExportStatisticsReturned ==
  args.tool = "exportStatistics" /\ built # NoResult /\ args.exportData \in Exports

\* C23: for the formats pdf and xls the content of the exportStatistics
\* adapter tells the approximate size in KB and has no preview and nothing of
\* what the data decode to; for html it has the preview of the decoded data.
C23_ExportStatisticsPreview ==
  ExportStatisticsReturned =>
    /\ ~built.isError /\ Len(built.content) = 2
    /\ Includes(built.content[2],
                "size of approximately " \o ToString(NearestKB(Len(args.exportData.s))) \o " KB.")
    /\ args.documentType \in {"pdf", "xls"}
         => /\ \A i \in 1..2 : ~Includes(built.content[i], "Preview")
            /\ args.exportData # Str("") => ~ShowsDecoded(built, args.exportData)
    /\ args.documentType = "html"
         => Includes(built.content[2],
                     "HTML Preview (first 300 characters):\n"
                     \o Substring(Plain[args.exportData], 0, 300) \o "...")

\* Statistics of 1368 characters of base64 were exported as pdf: the content
\* tells 1 KB and that the file was generated.
C23_Witness ==
  /\ ExportStatisticsReturned
  /\ args.documentType = "pdf" /\ Len(args.exportData.s) = 1368
  /\ built.content[2]
       = "The exported statistics file is base64 encoded and has a size of approximately 1 KB."
         \o "\nThe PDF file was successfully generated."

----------------------------------------------------------------------------
\* findSurvey.

\* The first position of `part` in s, from 1; 0 when s does not include it.
FirstIndexOf(s, part) ==
  IF Includes(s, part)
  THEN CHOOSE i \in 1..Len(s) :
         /\ SubSeq(s, i, i + Len(part) - 1) = part
         /\ \A j \in 1..(i - 1) : SubSeq(s, j, j + Len(part) - 1) # part
  ELSE 0

\* Where the result lists the survey: the position of its sid in the JSON
\* text, 0 when the survey is not listed.
ListedAt(survey) ==
  IF Len(built.content) < 2 THEN 0
  ELSE FirstIndexOf(built.content[2], "\"sid\": " \o JSONStringify(survey.sid) \o ",")

\* The sid equals the search term, or the title contains it, whatever the
\* case of the letters.
IsMatch(survey, searchTerm) ==
  \/ survey.sid.s = searchTerm
  \/ /\ survey.surveyls_title.t = "string"
     /\ Includes(ToUpperCase(survey.surveyls_title.s), ToUpperCase(searchTerm))

\* The creation date of the survey: `created`, or `datecreated`; "" when the
\* survey tells none.
CreationDate(survey) ==
  IF survey.created.t = "string" THEN survey.created.s
  ELSE IF survey.datecreated.t = "string" THEN survey.datecreated.s
  ELSE ""

\* Survey a was created after survey b, as far as the surveys tell.
Newer(a, b) ==
  /\ CreationDate(a) # "" /\ CreationDate(b) # ""
  /\ localeCompare(CreationDate(a), CreationDate(b)) > 0

SurveysOf(list) == { list[i] : i \in 1..Len(list) }

\* C30: findSurvey lists exactly the surveys of the list_surveys result whose
\* sid equals the search term or whose title contains it in any case of the
\* letters, the newer creation date first, only the first `limit` of them when
\* limit is positive; with no survey in the list or none that matches, the
\* result is a 'No surveys found' text that is no error.
C30_FindSurvey ==
  (args.tool = "findSurvey" /\ built # NoResult) =>
    LET matching == { s \in SurveysOf(args.allSurveys.items) : IsMatch(s, args.searchTerm) }
        listed == { s \in SurveysOf(args.allSurveys.items) : ListedAt(s) > 0 }
        wanted == IF args.limit > 0 /\ args.limit < Cardinality(matching)
                  THEN args.limit ELSE Cardinality(matching)
    IN /\ ~built.isError
       /\ IF matching = {}
          THEN Len(built.content) = 1 /\ StartsWith(built.content[1], "No surveys found")
          ELSE /\ Len(built.content) = 2
               /\ listed \subseteq matching
               /\ Cardinality(listed) = wanted
               /\ \A a, b \in listed : ListedAt(a) < ListedAt(b) => ~Newer(b, a)
               /\ \A a \in listed : \A b \in matching \ listed : ~Newer(b, a)

====
